---------------------------- MODULE Spec2Model ----------------------------
(***************************************************************************)
(* The SQL-like query subsystem of gp_inventory: the Lexer and Parser of   *)
(* src/sql/parser.js and the executor of src/sql/query-engine.js.          *)
(*                                                                         *)
(* JavaScript strings are modelled as sequences of one-character strings,  *)
(* so that the lexer's character classification, toUpperCase, parseFloat   *)
(* and the regular expression built for LIKE are computed and not          *)
(* assumed.  A JavaScript scalar (null, number, string) is a tagged record *)
(* (see NullV, Num, Str).  Numbers are fixed-point integers with           *)
(* FracDigits decimal places.                                              *)
(***************************************************************************)
EXTENDS Integers, Sequences, FiniteSets, TLC

-----------------------------------------------------------------------------
(* Bounds of the model *)

\* iterations of the tokenize loop that read no character which are followed
MaxSpin == 2
\* length of the generated query fragments
MaxLen == 3
\* rows in a generated primary data set
MaxRows == 2
\* rows in a generated secondary (join) data set
MaxRightRows == 2
\* rows in a table given to the query engine on its own
MaxTableRows == 3
\* decimal places kept by the fixed-point representation of numbers
FracDigits == 1

Scale == 10 ^ FracDigits

\* const v = ...; F(v): a value computed once and named
With(v, F(_)) == F(v)

-----------------------------------------------------------------------------
(* Characters and strings *)

LowerSeq == <<"a","b","c","d","e","f","g","h","i","j","k","l","m",
              "n","o","p","q","r","s","t","u","v","w","x","y","z">>
UpperSeq == <<"A","B","C","D","E","F","G","H","I","J","K","L","M",
              "N","O","P","Q","R","S","T","U","V","W","X","Y","Z">>
DigitSeq == <<"0","1","2","3","4","5","6","7","8","9">>

Range(f) == {f[i] : i \in DOMAIN f}

Letters == Range(LowerSeq) \cup Range(UpperSeq)
Digits == Range(DigitSeq)
\* /\s/
WhitespaceChars == {" ", "\t", "\n", "\r"}
\* /[\d.]/
NumberChars == Digits \cup {"."}
\* /[\w.]/
IdentifierChars == Letters \cup Digits \cup {"_", "."}
\* /[=<>!]/
OperatorChars == {"=", "<", ">", "!"}
\* /[(),;]/
PunctuationChars == {"(", ")", ",", ";"}

DigitVal(c) == (CHOOSE i \in DOMAIN DigitSeq : DigitSeq[i] = c) - 1

\* String.prototype.toUpperCase, one character
ToUpperChar(c) ==
    IF \E i \in DOMAIN LowerSeq : LowerSeq[i] = c
    THEN UpperSeq[CHOOSE i \in DOMAIN LowerSeq : LowerSeq[i] = c]
    ELSE c

ToLowerChar(c) ==
    IF \E i \in DOMAIN UpperSeq : UpperSeq[i] = c
    THEN LowerSeq[CHOOSE i \in DOMAIN UpperSeq : UpperSeq[i] = c]
    ELSE c

ToUpperCase(s) == [i \in DOMAIN s |-> ToUpperChar(s[i])]
ToLowerCase(s) == [i \in DOMAIN s |-> ToLowerChar(s[i])]

RECURSIVE TrimLeft(_)
TrimLeft(s) ==
    IF s # <<>> /\ Head(s) \in WhitespaceChars THEN TrimLeft(Tail(s)) ELSE s

RECURSIVE TrimRight(_)
TrimRight(s) ==
    IF s # <<>> /\ s[Len(s)] \in WhitespaceChars
    THEN TrimRight(SubSeq(s, 1, Len(s) - 1))
    ELSE s

\* String.prototype.trim
Trim(s) == TrimRight(TrimLeft(s))

-----------------------------------------------------------------------------
(* Scalars: null, numbers and strings *)

NullV == [t |-> "null", n |-> 0, s |-> <<>>]
Num(k) == [t |-> "num", n |-> k, s |-> <<>>]
Str(x) == [t |-> "str", n |-> 0, s |-> x]
\* the number NaN
NaNV == [t |-> "nan", n |-> 0, s |-> <<>>]

IsNull(v) == v.t = "null"

\* the integer k as a fixed-point number
Int2Num(k) == Num(k * Scale)

\* end of the longest run of characters of `chars` in s from 0-based position p
RECURSIVE ScanWhile(_, _, _)
ScanWhile(s, p, chars) ==
    IF p < Len(s) /\ s[p + 1] \in chars THEN ScanWhile(s, p + 1, chars) ELSE p

\* the value of a run of decimal digits
RECURSIVE DigitsValue(_)
DigitsValue(ds) ==
    IF ds = <<>> THEN 0
    ELSE 10 * DigitsValue(SubSeq(ds, 1, Len(ds) - 1)) + DigitVal(ds[Len(ds)])

\* the first FracDigits digits of a fraction, as an integer below Scale
FracValue(ds) ==
    DigitsValue([i \in 1..FracDigits |-> IF i <= Len(ds) THEN ds[i] ELSE "0"])

\* parseFloat reads: leading white space, an optional sign, digits, and an
\* optional fraction.  (Exponents and the word Infinity do not occur in the
\* strings of the model.)  FloatPrefix takes the string without its leading
\* white space; its value is [value, end]: the number read (NaN when no
\* digit is found) and the position where reading stopped.
FloatPrefix(s) ==
    With(IF s # <<>> /\ s[1] \in {"+", "-"} THEN 1 ELSE 0, LAMBDA p0 :
    With(ScanWhile(s, p0, Digits), LAMBDA p1 :
    With(IF p1 < Len(s) /\ s[p1 + 1] = "."
         THEN ScanWhile(s, p1 + 1, Digits) ELSE p1, LAMBDA p2 :
        IF p1 = p0 /\ p2 <= p1 + 1 THEN [value |-> NaNV, end |-> 0]
        ELSE [value |-> Num((IF s[1] = "-" THEN 0 - 1 ELSE 1)
                            * (DigitsValue(SubSeq(s, p0 + 1, p1)) * Scale
                               + FracValue(SubSeq(s, p1 + 2, p2)))),
              end |-> p2])))

\* parseFloat(string)
ParseFloatStr(str) == FloatPrefix(TrimLeft(str)).value

\* parseFloat on any scalar (the argument is first converted to a string:
\* null gives "null", which has no digits)
ParseFloat(v) ==
    IF v.t = "num" THEN v
    ELSE IF v.t = "str" THEN ParseFloatStr(v.s)
    ELSE NaNV

-----------------------------------------------------------------------------
(* Token types and keywords (parser.js 13-27) *)

TOKEN_TYPES ==
    [KEYWORD |-> "KEYWORD", IDENTIFIER |-> "IDENTIFIER", STRING |-> "STRING",
     NUMBER |-> "NUMBER", OPERATOR |-> "OPERATOR",
     PUNCTUATION |-> "PUNCTUATION", EOF |-> "EOF"]

\* the words of KEYWORDS, by name
KW ==
    ("SELECT" :> <<"S", "E", "L", "E", "C", "T">>) @@
    ("FROM" :> <<"F", "R", "O", "M">>) @@
    ("WHERE" :> <<"W", "H", "E", "R", "E">>) @@
    ("ORDER" :> <<"O", "R", "D", "E", "R">>) @@
    ("BY" :> <<"B", "Y">>) @@
    ("GROUP" :> <<"G", "R", "O", "U", "P">>) @@
    ("JOIN" :> <<"J", "O", "I", "N">>) @@
    ("ON" :> <<"O", "N">>) @@
    ("INNER" :> <<"I", "N", "N", "E", "R">>) @@
    ("LEFT" :> <<"L", "E", "F", "T">>) @@
    ("RIGHT" :> <<"R", "I", "G", "H", "T">>) @@
    ("AND" :> <<"A", "N", "D">>) @@
    ("OR" :> <<"O", "R">>) @@
    ("NOT" :> <<"N", "O", "T">>) @@
    ("IN" :> <<"I", "N">>) @@
    ("LIKE" :> <<"L", "I", "K", "E">>) @@
    ("AS" :> <<"A", "S">>) @@
    ("ASC" :> <<"A", "S", "C">>) @@
    ("DESC" :> <<"D", "E", "S", "C">>) @@
    ("LIMIT" :> <<"L", "I", "M", "I", "T">>) @@
    ("COUNT" :> <<"C", "O", "U", "N", "T">>) @@
    ("SUM" :> <<"S", "U", "M">>) @@
    ("AVG" :> <<"A", "V", "G">>) @@
    ("MIN" :> <<"M", "I", "N">>) @@
    ("MAX" :> <<"M", "A", "X">>)

KEYWORDS == {KW[k] : k \in DOMAIN KW}

EOFToken == [type |-> TOKEN_TYPES.EOF, value |-> NullV]

-----------------------------------------------------------------------------
(* Lexer (parser.js 33-183).  A lexer position is 0-based, as in the code;  *)
(* the operators take the input s and a position p and return what was     *)
(* read and the position reached.                                          *)

\* this.currentChar: "" stands for null
currentChar(s, p) == IF p < Len(s) THEN s[p + 1] ELSE ""

skipWhitespace(s, p) == ScanWhile(s, p, WhitespaceChars)

\* the loop of readString and the advance over the closing quote
RECURSIVE ReadStringLoop(_, _, _, _)
ReadStringLoop(s, p, quote, value) ==
    IF currentChar(s, p) # "" /\ currentChar(s, p) # quote
    THEN IF currentChar(s, p) = "\\"
         THEN IF currentChar(s, p + 1) # ""
              THEN ReadStringLoop(s, p + 2, quote, Append(value, currentChar(s, p + 1)))
              ELSE ReadStringLoop(s, p + 1, quote, value)
         ELSE ReadStringLoop(s, p + 1, quote, Append(value, currentChar(s, p)))
    ELSE [value |-> value, pos |-> IF currentChar(s, p) = quote THEN p + 1 ELSE p]

readString(s, p) == ReadStringLoop(s, p + 1, currentChar(s, p), <<>>)

readNumber(s, p) ==
    With(ScanWhile(s, p, NumberChars), LAMBDA q :
        [value |-> ParseFloatStr(SubSeq(s, p + 1, q)), pos |-> q])

readIdentifier(s, p) ==
    With(ScanWhile(s, p, IdentifierChars), LAMBDA q :
        [value |-> SubSeq(s, p + 1, q), pos |-> q])

\* the pairs the if of readOperator folds into one operator
TwoCharOperators ==
    {<<"<", ">">>, <<"!", "=">>, <<"=", "=">>, <<">", "=">>, <<"<", "=">>}

\* op is the character consumed first, next the one after it;
\* ['=', '>', '<'].includes(op) guards the look at next
readOperator(s, p) ==
    With(currentChar(s, p), LAMBDA op :
    With(currentChar(s, p + 1), LAMBDA next :
        IF next # "" /\ op \in {"=", ">", "<"} /\ <<op, next>> \in TwoCharOperators
        THEN [value |-> <<op, next>>, pos |-> p + 2]
        ELSE [value |-> <<op>>, pos |-> p + 1]))

\* the object returned by nextToken, with the position the lexer is left at
Token(type, value, pos) == [token |-> [type |-> type, value |-> value], pos |-> pos]

\* the end of nextToken: const upper = identifier.toUpperCase(), and the
\* token for KEYWORDS.includes(upper)
WordToken(r) ==
    With(ToUpperCase(r.value), LAMBDA upper :
        IF upper \in KEYWORDS
        THEN Token(TOKEN_TYPES.KEYWORD, Str(upper), r.pos)
        ELSE Token(TOKEN_TYPES.IDENTIFIER, Str(r.value), r.pos))

\* One call of nextToken with the lexer at position p0: the token returned
\* and the position the lexer is left at.
nextToken(s, p0) ==
    With(skipWhitespace(s, p0), LAMBDA p :
    With(currentChar(s, p), LAMBDA c :
        IF c = "" THEN Token(TOKEN_TYPES.EOF, NullV, p)
        ELSE IF c \in {"\"", "'"}
        THEN With(readString(s, p), LAMBDA r :
                 Token(TOKEN_TYPES.STRING, Str(r.value), r.pos))
        ELSE IF c \in Digits
        THEN With(readNumber(s, p), LAMBDA r :
                 Token(TOKEN_TYPES.NUMBER, r.value, r.pos))
        ELSE IF c \in OperatorChars
        THEN With(readOperator(s, p), LAMBDA r :
                 Token(TOKEN_TYPES.OPERATOR, Str(r.value), r.pos))
        ELSE IF c \in PunctuationChars
        THEN Token(TOKEN_TYPES.PUNCTUATION, Str(<<c>>), p + 1)
        ELSE WordToken(readIdentifier(s, p))))

-----------------------------------------------------------------------------
(* Parser (parser.js 189-509).  A parse function takes the token array and  *)
(* the parser position and returns [err, pos, val]: err is "" when it      *)
(* returns normally (val is the value returned, pos the position reached)  *)
(* and names the throw statement otherwise.                                *)

\* an array (orderBy, groupBy, a data set)
ListV(xs) == [t |-> "list", n |-> 0, s |-> xs]
\* the array of values of an IN condition
ArrayV(xs) == [t |-> "array", n |-> 0, s |-> <<>>, items |-> xs]

Ok(val, pos) == [err |-> "", pos |-> pos, val |-> val]
Fail(kind) == [err |-> kind, pos |-> 0, val |-> NullV]

\* const r = ...; F(r), where a throw inside the call that gave r propagates
Bind(r, F(_)) == IF r.err # "" THEN r ELSE F(r)

\* the throw statements of expect and the one of parseValue
ErrExpect == "expect"
ErrValue == "value"

\* this.currentToken at position p (constructor and advance)
currentToken(toks, p) == IF p < Len(toks) THEN toks[p + 1] ELSE EOFToken

\* this.currentToken.value === str
CurIs(toks, p, str) == currentToken(toks, p).value = Str(str)

\* an expect that returns the token and leaves the position where it was
expectWithoutAdvance(toks, p, type, value) ==
    With(currentToken(toks, p), LAMBDA tok :
        IF tok.type # type THEN Fail(ErrExpect)
        ELSE IF value # NullV /\ tok.value # value THEN Fail(ErrExpect)
        ELSE Ok(tok, p))

\* expect(type, value): value NullV stands for the default null; val is the
\* token
expect(toks, p, type, value) ==
    With(currentToken(toks, p), LAMBDA tok :
        IF tok.type # type THEN Fail(ErrExpect)
        ELSE IF value # NullV /\ tok.value # value THEN Fail(ErrExpect)
        ELSE Ok(tok, p + 1))

\* expect(TOKEN_TYPES.IDENTIFIER).value, as a string
ExpectIdentifier(toks, p) ==
    Bind(expect(toks, p, TOKEN_TYPES.IDENTIFIER, NullV), LAMBDA e :
        Ok(e.val.value.s, e.pos))

AggregateKeywords == {KW.COUNT, KW.SUM, KW.AVG, KW.MIN, KW.MAX}

\* A select-list item: the string column (t = "string"), { column, alias }
\* (t = "alias") or { type, column, alias? } (t = "agg").  Column names and
\* aggregate types are strings; alias is a scalar, NullV when absent.
Column(t, type, column, alias) ==
    [t |-> t, type |-> type, column |-> column, alias |-> alias]

\* Identifier ('.' Identifier)?; val is the column name
parseColumnIdentifier(toks, p) ==
    Bind(ExpectIdentifier(toks, p), LAMBDA a :
        IF CurIs(toks, a.pos, <<".">>)
        THEN Bind(ExpectIdentifier(toks, a.pos + 1), LAMBDA b :
                 Ok(a.val \o <<".">> \o b.val, b.pos))
        ELSE a)

\* the aggregation branch of parseColumn
ParseAggregate(toks, p) ==
    With(currentToken(toks, p).value.s, LAMBDA aggType :
    Bind(expect(toks, p + 1, TOKEN_TYPES.PUNCTUATION, Str(<<"(">>)), LAMBDA open :
    Bind(IF CurIs(toks, open.pos, <<"*">>) THEN Ok(<<"*">>, open.pos + 1)
         ELSE ExpectIdentifier(toks, open.pos), LAMBDA column :
    Bind(expect(toks, column.pos, TOKEN_TYPES.PUNCTUATION, Str(<<")">>)), LAMBDA close :
        IF CurIs(toks, close.pos, KW.AS)
        THEN Bind(ExpectIdentifier(toks, close.pos + 1), LAMBDA alias :
                 Ok(Column("agg", aggType, column.val, Str(alias.val)), alias.pos))
        ELSE Ok(Column("agg", aggType, column.val, NullV), close.pos)))))

parseColumn(toks, p) ==
    IF /\ currentToken(toks, p).type = TOKEN_TYPES.KEYWORD
       /\ currentToken(toks, p).value.s \in AggregateKeywords
    THEN ParseAggregate(toks, p)
    ELSE Bind(parseColumnIdentifier(toks, p), LAMBDA column :
             IF CurIs(toks, column.pos, KW.AS)
             THEN Bind(ExpectIdentifier(toks, column.pos + 1), LAMBDA alias :
                      Ok(Column("alias", <<>>, column.val, Str(alias.val)), alias.pos))
             ELSE Ok(Column("string", <<>>, column.val, NullV), column.pos))

\* the while (true) loop of parseSelect
RECURSIVE SelectLoop(_, _, _)
SelectLoop(toks, p, columns) ==
    Bind(parseColumn(toks, p), LAMBDA column :
        IF CurIs(toks, column.pos, <<",">>)
        THEN SelectLoop(toks, column.pos + 1, Append(columns, column.val))
        ELSE Ok(Append(columns, column.val), column.pos))

parseSelect(toks, p) ==
    Bind(expect(toks, p, TOKEN_TYPES.KEYWORD, Str(KW.SELECT)), LAMBDA select :
        IF CurIs(toks, select.pos, <<"*">>)
        THEN Ok(<<Column("string", <<>>, <<"*">>, NullV)>>, select.pos + 1)
        ELSE SelectLoop(toks, select.pos, <<>>))

\* val is the table name as a scalar, NullV when there is no FROM
parseFrom(toks, p) ==
    IF CurIs(toks, p, KW.FROM)
    THEN Bind(ExpectIdentifier(toks, p + 1), LAMBDA table :
             Ok(Str(table.val), table.pos))
    ELSE Ok(NullV, p)

parseValue(toks, p) ==
    With(currentToken(toks, p), LAMBDA tok :
        IF tok.type \in {TOKEN_TYPES.STRING, TOKEN_TYPES.NUMBER, TOKEN_TYPES.IDENTIFIER}
        THEN Ok(tok.value, p + 1)
        ELSE Fail(ErrValue))

\* WHERE nodes: { type, left, right }, { type: 'NOT', condition } and
\* { type, column, value }
CondBin(op, left, right) == [t |-> "cond", type |-> op, left |-> left, right |-> right]
CondNot(inner) == [t |-> "cond", type |-> KW.NOT, condition |-> inner]
CondCmp(op, column, value) == [t |-> "cond", type |-> op, column |-> column, value |-> value]

\* the loop that reads the parenthesised list of IN, and the expect after it
RECURSIVE InLoop(_, _, _)
InLoop(toks, p, values) ==
    IF CurIs(toks, p, <<")">>)
    THEN Bind(expect(toks, p, TOKEN_TYPES.PUNCTUATION, Str(<<")">>)), LAMBDA close :
             Ok(ArrayV(values), close.pos))
    ELSE Bind(parseValue(toks, p), LAMBDA v :
             InLoop(toks, IF CurIs(toks, v.pos, <<",">>) THEN v.pos + 1 ELSE v.pos,
                    Append(values, v.val)))

RECURSIVE parseCondition(_, _)
RECURSIVE ConditionLoop(_, _)
RECURSIVE parseConditionTerm(_, _)

parseConditionTerm(toks, p) ==
    IF CurIs(toks, p, KW.NOT)
    THEN Bind(parseConditionTerm(toks, p + 1), LAMBDA inner :
             Ok(CondNot(inner.val), inner.pos))
    ELSE IF CurIs(toks, p, <<"(">>)
    THEN Bind(parseCondition(toks, p + 1), LAMBDA condition :
         Bind(expect(toks, condition.pos, TOKEN_TYPES.PUNCTUATION, Str(<<")">>)),
              LAMBDA close : Ok(condition.val, close.pos)))
    ELSE Bind(parseColumnIdentifier(toks, p), LAMBDA column :
         Bind(expect(toks, column.pos, TOKEN_TYPES.OPERATOR, NullV), LAMBDA operator :
         Bind(parseValue(toks, operator.pos), LAMBDA value :
             IF operator.val.value.s = KW["IN"] /\ CurIs(toks, value.pos, <<"(">>)
             THEN Bind(InLoop(toks, value.pos + 1, <<>>), LAMBDA values :
                      Ok(CondCmp(operator.val.value.s, column.val, values.val),
                         values.pos))
             ELSE Ok(CondCmp(operator.val.value.s, column.val, value.val),
                     value.pos))))

\* a loop that takes everything after AND or OR as the right operand
ConditionLoopRightAssociative(toks, left) ==
    IF CurIs(toks, left.pos, KW.AND) \/ CurIs(toks, left.pos, KW.OR)
    THEN Bind(parseCondition(toks, left.pos + 1), LAMBDA right :
             Ok(CondBin(currentToken(toks, left.pos).value.s, left.val, right.val),
                right.pos))
    ELSE left

\* the while loop of parseCondition, entered with the condition read so far
ConditionLoop(toks, left) ==
    IF CurIs(toks, left.pos, KW.AND) \/ CurIs(toks, left.pos, KW.OR)
    THEN Bind(parseConditionTerm(toks, left.pos + 1), LAMBDA right :
             ConditionLoop(toks,
                 Ok(CondBin(currentToken(toks, left.pos).value.s, left.val, right.val),
                    right.pos)))
    ELSE left

parseCondition(toks, p) ==
    Bind(parseConditionTerm(toks, p), LAMBDA left : ConditionLoop(toks, left))

parseWhere(toks, p) ==
    IF ~CurIs(toks, p, KW.WHERE) THEN Ok(NullV, p) ELSE parseCondition(toks, p + 1)

\* the while (true) loop of parseOrderBy
RECURSIVE OrderLoop(_, _, _)
OrderLoop(toks, p, orders) ==
    Bind(parseColumnIdentifier(toks, p), LAMBDA column :
    With(CurIs(toks, column.pos, KW.ASC) \/ CurIs(toks, column.pos, KW.DESC),
         LAMBDA given :
    With(Append(orders,
                [column |-> column.val,
                 direction |-> IF given THEN currentToken(toks, column.pos).value.s
                               ELSE KW.ASC]), LAMBDA pushed :
    With(IF given THEN column.pos + 1 ELSE column.pos, LAMBDA q :
        IF CurIs(toks, q, <<",">>) THEN OrderLoop(toks, q + 1, pushed)
        ELSE Ok(ListV(pushed), q)))))

parseOrderBy(toks, p) ==
    IF ~CurIs(toks, p, KW.ORDER) THEN Ok(NullV, p)
    ELSE Bind(expect(toks, p, TOKEN_TYPES.KEYWORD, Str(KW.ORDER)), LAMBDA order :
         Bind(expect(toks, order.pos, TOKEN_TYPES.KEYWORD, Str(KW["BY"])), LAMBDA by :
             OrderLoop(toks, by.pos, <<>>)))

\* the while (true) loop of parseGroupBy
RECURSIVE GroupLoop(_, _, _)
GroupLoop(toks, p, columns) ==
    Bind(parseColumnIdentifier(toks, p), LAMBDA column :
        IF CurIs(toks, column.pos, <<",">>)
        THEN GroupLoop(toks, column.pos + 1, Append(columns, column.val))
        ELSE Ok(ListV(Append(columns, column.val)), column.pos))

parseGroupBy(toks, p) ==
    IF ~CurIs(toks, p, KW.GROUP) THEN Ok(NullV, p)
    ELSE Bind(expect(toks, p, TOKEN_TYPES.KEYWORD, Str(KW.GROUP)), LAMBDA group :
         Bind(expect(toks, group.pos, TOKEN_TYPES.KEYWORD, Str(KW["BY"])), LAMBDA by :
             GroupLoop(toks, by.pos, <<>>)))

\* { type, table, on: { left, right } }
JoinSpec(type, table, left, right) ==
    [t |-> "join", type |-> type, table |-> table,
     on |-> [left |-> left, right |-> right]]

parseJoin(toks, p) ==
    With(CurIs(toks, p, KW.INNER) \/ CurIs(toks, p, KW.LEFT) \/ CurIs(toks, p, KW.RIGHT),
         LAMBDA typed :
        IF ~(CurIs(toks, p, KW.JOIN) \/ typed) THEN Ok(NullV, p)
        ELSE
    With(IF typed THEN currentToken(toks, p).value.s ELSE KW.INNER, LAMBDA joinType :
    Bind(expect(toks, IF typed THEN p + 1 ELSE p, TOKEN_TYPES.KEYWORD, Str(KW.JOIN)),
         LAMBDA join :
    Bind(ExpectIdentifier(toks, join.pos), LAMBDA table :
    Bind(expect(toks, table.pos, TOKEN_TYPES.KEYWORD, Str(KW.ON)), LAMBDA on :
    Bind(parseColumnIdentifier(toks, on.pos), LAMBDA left :
    Bind(expect(toks, left.pos, TOKEN_TYPES.OPERATOR, Str(<<"=">>)), LAMBDA eq :
    Bind(parseColumnIdentifier(toks, eq.pos), LAMBDA right :
        Ok(JoinSpec(joinType, table.val, left.val, right.val), right.pos)))))))))

parseLimit(toks, p) ==
    IF ~CurIs(toks, p, KW.LIMIT) THEN Ok(NullV, p)
    ELSE Bind(expect(toks, p + 1, TOKEN_TYPES.NUMBER, NullV), LAMBDA limit :
             Ok(limit.val.value, limit.pos))

\* Parser.parse: the object literal evaluates the select list and the six
\* clause functions in this order; nothing is checked after the last one.
\* pos is where the parser stopped.
parse(toks) ==
    Bind(parseSelect(toks, 0), LAMBDA cols :
    Bind(parseFrom(toks, cols.pos), LAMBDA frm :
    Bind(parseWhere(toks, frm.pos), LAMBDA whr :
    Bind(parseOrderBy(toks, whr.pos), LAMBDA ord :
    Bind(parseGroupBy(toks, ord.pos), LAMBDA grp :
    Bind(parseJoin(toks, grp.pos), LAMBDA jn :
    Bind(parseLimit(toks, jn.pos), LAMBDA lim :
        Ok([type |-> KW.SELECT, columns |-> cols.val, from |-> frm.val,
            where |-> whr.val, orderBy |-> ord.val,
            groupBy |-> grp.val, join |-> jn.val, limit |-> lim.val],
           lim.pos))))))))

-----------------------------------------------------------------------------
(* Conversions of the language that the executor relies on *)

RECURSIVE NatToStr(_)
NatToStr(k) ==
    IF k < 10 THEN <<DigitSeq[k + 1]>>
    ELSE NatToStr(k \div 10) \o <<DigitSeq[(k % 10) + 1]>>

RECURSIVE DropTrailingZeros(_)
DropTrailingZeros(ds) ==
    IF ds # <<>> /\ ds[Len(ds)] = "0"
    THEN DropTrailingZeros(SubSeq(ds, 1, Len(ds) - 1))
    ELSE ds

\* the fraction f (below Scale) as width digits
RECURSIVE PadFrac(_, _)
PadFrac(f, width) ==
    IF width = 0 THEN <<>>
    ELSE PadFrac(f \div 10, width - 1) \o <<DigitSeq[(f % 10) + 1]>>

\* the decimal text of a magnitude in fixed point
MagnitudeToString(mag) ==
    With(DropTrailingZeros(PadFrac(mag % Scale, FracDigits)), LAMBDA frac :
        NatToStr(mag \div Scale) \o (IF frac = <<>> THEN <<>> ELSE <<".">> \o frac))

\* String(number)
NumToString(n) ==
    IF n < 0 THEN <<"-">> \o MagnitudeToString(0 - n) ELSE MagnitudeToString(n)

\* String(value)
ToStringV(v) ==
    IF v.t = "str" THEN v.s
    ELSE IF v.t = "num" THEN NumToString(v.n)
    ELSE IF v.t = "nan" THEN <<"N", "a", "N">>
    ELSE <<"n", "u", "l", "l">>

\* ToNumber on a string: after trimming, the empty string is 0, a decimal
\* literal as a whole is its value, anything else is NaN
ToNumberStr(str) ==
    With(Trim(str), LAMBDA s :
    With(FloatPrefix(s), LAMBDA r :
        IF s = <<>> THEN Num(0)
        ELSE IF r.end = Len(s) THEN r.value
        ELSE NaNV))

\* ToNumber(value)
ToNumber(v) ==
    IF v.t = "num" THEN v
    ELSE IF v.t = "str" THEN ToNumberStr(v.s)
    ELSE IF v.t = "null" THEN Num(0)
    ELSE NaNV

\* a == b on scalars
LooseEq(a, b) ==
    IF a.t = "null" \/ b.t = "null" THEN a.t = "null" /\ b.t = "null"
    ELSE IF a.t \notin {"num", "str"} \/ b.t \notin {"num", "str"} THEN FALSE
    ELSE IF a.t = "str" /\ b.t = "str" THEN a.s = b.s
    ELSE With(ToNumber(a), LAMBDA x :
         With(ToNumber(b), LAMBDA y : x.t = "num" /\ y.t = "num" /\ x.n = y.n))

\* the comparison of Array.prototype.includes: same type and same value
SameValueZero(a, b) == a = b

\* the truthiness of a scalar
Truthy(v) ==
    IF v.t \in {"null", "nan"} THEN FALSE
    ELSE IF v.t = "num" THEN v.n # 0
    ELSE IF v.t = "str" THEN v.s # <<>>
    ELSE TRUE

\* The order of the characters under String.prototype.localeCompare (root
\* collation): punctuation, symbols, digits, letters; a letter's two cases
\* differ only when everything else is equal, lower case first.
CollationOrder ==
    <<" ", "_", "-", ",", ";", ":", "!", "?", ".", "'", "\"", "(", ")", "*",
      "\\", "%", "+", "<", "=", ">">> \o DigitSeq \o LowerSeq

CollationRank(c) ==
    With(ToLowerChar(c), LAMBDA lower :
        IF \E i \in DOMAIN CollationOrder : CollationOrder[i] = lower
        THEN CHOOSE i \in DOMAIN CollationOrder : CollationOrder[i] = lower
        ELSE 0)

RECURSIVE LexCompare(_, _)
LexCompare(x, y) ==
    IF x = <<>> THEN (IF y = <<>> THEN 0 ELSE 0 - 1)
    ELSE IF y = <<>> THEN 1
    ELSE IF Head(x) # Head(y) THEN (IF Head(x) < Head(y) THEN 0 - 1 ELSE 1)
    ELSE LexCompare(Tail(x), Tail(y))

CollationKey(s) == [i \in DOMAIN s |-> CollationRank(s[i])]
CaseKey(s) == [i \in DOMAIN s |-> IF s[i] \in Range(UpperSeq) THEN 1 ELSE 0]

\* the sign of a.localeCompare(b)
LocaleCompare(a, b) ==
    With(LexCompare(CollationKey(a), CollationKey(b)), LAMBDA primary :
        IF primary # 0 THEN primary ELSE LexCompare(CaseKey(a), CaseKey(b)))

-----------------------------------------------------------------------------
(* Value helpers (query-engine.js 13-37).  A row is a function from column  *)
(* names to scalars.                                                       *)

\* row[key]: undefined, like null, reads as NullV
Field(row, key) == IF key \in DOMAIN row THEN row[key] ELSE NullV

\* 0-based index of the first "." of s at or after p, or Len(s)
RECURSIVE IndexOfDot(_, _)
IndexOfDot(s, p) ==
    IF p < Len(s) /\ s[p + 1] # "." THEN IndexOfDot(s, p + 1) ELSE p

HasDot(s) == IndexOfDot(s, 0) < Len(s)

\* column.split('.')[1]
SecondSegment(s) ==
    With(IndexOfDot(s, 0), LAMBDA d : SubSeq(s, d + 2, IndexOfDot(s, d + 1)))

getValue(row, column) ==
    IF HasDot(column)
    THEN With(Field(row, SecondSegment(column)), LAMBDA v :
             IF ~IsNull(v) THEN v ELSE Field(row, column))
    ELSE Field(row, column)

\* a compareValues without the numeric comparison
compareValuesAsText(a, b) ==
    IF IsNull(a) /\ IsNull(b) THEN 0
    ELSE IF IsNull(a) THEN 0 - 1
    ELSE IF IsNull(b) THEN 1
    ELSE LocaleCompare(ToStringV(a), ToStringV(b))

\* the sign of compareValues(a, b)
compareValues(a, b) ==
    IF IsNull(a) /\ IsNull(b) THEN 0
    ELSE IF IsNull(a) THEN 0 - 1
    ELSE IF IsNull(b) THEN 1
    ELSE With(ParseFloat(a), LAMBDA na :
         With(ParseFloat(b), LAMBDA nb :
             IF na.t = "num" /\ nb.t = "num"
             THEN (IF na.n < nb.n THEN 0 - 1 ELSE IF na.n > nb.n THEN 1 ELSE 0)
             ELSE LocaleCompare(ToStringV(a), ToStringV(b))))

-----------------------------------------------------------------------------
(* WHERE conditions (query-engine.js 43-94) *)

\* replace(/%/g, '.*').replace(/_/g, '.')
RECURSIVE LikeToRegExpSource(_)
LikeToRegExpSource(pattern) ==
    IF pattern = <<>> THEN <<>>
    ELSE (IF Head(pattern) = "%" THEN <<".", "*">>
          ELSE IF Head(pattern) = "_" THEN <<".">>
          ELSE <<Head(pattern)>>) \o LikeToRegExpSource(Tail(pattern))

\* Characters with a meaning in a regular expression source that the model
\* follows: "." and "*" (as produced by the translation of % and _, or
\* written in the pattern) and the two parentheses.  Every other character
\* of a pattern of the model is a letter or a digit and stands for itself.
RECURSIVE ParenDepthOk(_, _)
ParenDepthOk(src, depth) ==
    IF src = <<>> THEN depth = 0
    ELSE IF Head(src) = "(" THEN ParenDepthOk(Tail(src), depth + 1)
    ELSE IF Head(src) = ")" THEN depth > 0 /\ ParenDepthOk(Tail(src), depth - 1)
    ELSE ParenDepthOk(Tail(src), depth)

\* a "*" needs an atom before it: not at the start, after "(" or after "*"
StarsOk(src) ==
    \A i \in DOMAIN src :
        src[i] = "*" => (i > 1 /\ src[i - 1] \notin {"(", "*"})

\* whether new RegExp(`^${src}$`) returns (it throws SyntaxError otherwise)
RegExpCompiles(src) == ParenDepthOk(src, 0) /\ StarsOk(src)

StripParens(src) == SelectSeq(src, LAMBDA c : c \notin {"(", ")"})

\* whether the atom c of a source matches the character ch: "." matches
\* every character but a line terminator (the expression has no s flag)
AtomMatches(c, ch) == IF c = "." THEN ch \notin {"\n", "\r"} ELSE c = ch

\* whether the items of src from 1-based index i match value from index j to
\* its end; src has no parentheses
RECURSIVE MatchFrom(_, _, _, _)
MatchFrom(src, i, value, j) ==
    IF i > Len(src) THEN j > Len(value)
    ELSE IF i < Len(src) /\ src[i + 1] = "*"
    THEN \/ MatchFrom(src, i + 2, value, j)
         \/ /\ j <= Len(value)
            /\ AtomMatches(src[i], value[j])
            /\ MatchFrom(src, i, value, j + 1)
    ELSE /\ j <= Len(value)
         /\ AtomMatches(src[i], value[j])
         /\ MatchFrom(src, i + 1, value, j + 1)

\* new RegExp(`^${src}$`).test(value), for a source that compiles and
\* repeats no group (a group that is not repeated matches what its content
\* matches)
RegExpTest(src, value) == MatchFrom(StripParens(src), 1, value, 1)

\* the value of evaluateCondition: raised names the exception that left the
\* call, "" when it returned value
Ret(b) == [raised |-> "", value |-> b]
Throw(kind) == [raised |-> kind, value |-> FALSE]

\* String(v || '').toLowerCase()
LikeText(v) == ToLowerCase(IF Truthy(v) THEN ToStringV(v) ELSE <<>>)

\* the LIKE case
EvaluateLike(cell, pattern) ==
    With(LikeText(cell), LAMBDA value :
    With(LikeToRegExpSource(LikeText(pattern)), LAMBDA src :
        IF ~RegExpCompiles(src) THEN Throw("SyntaxError")
        ELSE Ret(RegExpTest(src, value))))

\* Array.isArray(value) && value.includes(cell)
Includes(value, cell) ==
    /\ value.t = "array"
    /\ \E i \in DOMAIN value.items : SameValueZero(value.items[i], cell)

\* a switch whose default case rejects the row
EvaluateComparisonRejectingUnknown(type, cell, value) ==
    IF type \in {<<"=">>, <<"=", "=">>} THEN Ret(LooseEq(cell, value))
    ELSE IF type \in {<<"!", "=">>, <<"<", ">">>} THEN Ret(~LooseEq(cell, value))
    ELSE IF type \in {<<">">>, <<">", "=">>, <<"<">>, <<"<", "=">>}
    THEN With(compareValues(cell, value), LAMBDA c :
             Ret(IF type = <<">">> THEN c > 0
                 ELSE IF type = <<">", "=">> THEN c >= 0
                 ELSE IF type = <<"<">> THEN c < 0
                 ELSE c <= 0))
    ELSE IF type = KW.LIKE THEN EvaluateLike(cell, value)
    ELSE IF type = KW["IN"] THEN Ret(Includes(value, cell))
    ELSE Ret(FALSE)

\* the cases of the switch that read a column: cell is
\* getValue(row, condition.column)
EvaluateComparison(type, cell, value) ==
    IF type \in {<<"=">>, <<"=", "=">>} THEN Ret(LooseEq(cell, value))
    ELSE IF type \in {<<"!", "=">>, <<"<", ">">>} THEN Ret(~LooseEq(cell, value))
    ELSE IF type \in {<<">">>, <<">", "=">>, <<"<">>, <<"<", "=">>}
    THEN With(compareValues(cell, value), LAMBDA c :
             Ret(IF type = <<">">> THEN c > 0
                 ELSE IF type = <<">", "=">> THEN c >= 0
                 ELSE IF type = <<"<">> THEN c < 0
                 ELSE c <= 0))
    ELSE IF type = KW.LIKE THEN EvaluateLike(cell, value)
    ELSE IF type = KW["IN"] THEN Ret(Includes(value, cell))
    ELSE Ret(TRUE)

\* && and || evaluate their right operand only when the left one does not
\* decide; an exception in an operand leaves the call
RECURSIVE evaluateCondition(_, _)
evaluateCondition(row, condition) ==
    IF IsNull(condition) THEN Ret(TRUE)
    ELSE IF condition.type \in {KW.AND, KW.OR}
    THEN With(evaluateCondition(row, condition.left), LAMBDA l :
             IF l.raised # "" \/ l.value = (condition.type = KW.OR) THEN l
             ELSE evaluateCondition(row, condition.right))
    ELSE IF condition.type = KW.NOT
    THEN With(evaluateCondition(row, condition.condition), LAMBDA c :
             IF c.raised # "" THEN c ELSE Ret(~c.value))
    ELSE EvaluateComparison(condition.type, getValue(row, condition.column),
                            condition.value)

\* rows.filter(row => evaluateCondition(row, condition)): [raised, rows]
RECURSIVE FilterRows(_, _)
FilterRows(rows, condition) ==
    IF rows = <<>> THEN [raised |-> "", rows |-> <<>>]
    ELSE With(evaluateCondition(Head(rows), condition), LAMBDA verdict :
             IF verdict.raised # "" THEN [raised |-> verdict.raised, rows |-> <<>>]
             ELSE With(FilterRows(Tail(rows), condition), LAMBDA rest :
                      IF rest.raised # "" \/ ~verdict.value THEN rest
                      ELSE [raised |-> "", rows |-> <<Head(rows)>> \o rest.rows]))

-----------------------------------------------------------------------------
(* SELECT columns and aggregations (query-engine.js 100-177, 206-284) *)

\* An array of a call: ref names the array object ("data" for the data
\* argument, "new" for an array made during the call), s is what it holds.
ArrayRef(ref, s) == [ref |-> ref, s |-> s]

\* a slice that hands out the array it was called on
ArraySliceShared(a) == a

\* a.slice(): a new array that holds the same rows
ArraySlice(a) == ArrayRef("new", a.s)

\* result[key] = value
SetKey(row, key, value) ==
    [k \in DOMAIN row \cup {key} |-> IF k = key THEN value ELSE row[k]]

\* {}
EmptyRow == [k \in {} |-> NullV]

\* typeof col === 'object' && col.type && [...].includes(col.type)
IsAggregation(col) == col.t = "agg" /\ col.type \in AggregateKeywords

\* col.alias || `${col.type}_${col.column || '*'}`
AggregateAlias(col) ==
    IF Truthy(col.alias) THEN col.alias.s
    ELSE col.type \o <<"_">> \o (IF col.column # <<>> THEN col.column ELSE <<"*">>)

\* col.alias || col.column
AliasOrColumn(col) == IF Truthy(col.alias) THEN col.alias.s ELSE col.column

\* the reduce of SUM and AVG: val is parseFloat of the cell, NaN counts as 0
RECURSIVE SumOf(_, _)
SumOf(rows, column) ==
    IF rows = <<>> THEN 0
    ELSE With(ParseFloat(getValue(Head(rows), column)), LAMBDA val :
             (IF val.t = "num" THEN val.n ELSE 0) + SumOf(Tail(rows), column))

\* rows.map(r => getValue(r, column)).filter(v => v != null)
RECURSIVE NonNullValues(_, _)
NonNullValues(rows, column) ==
    IF rows = <<>> THEN <<>>
    ELSE With(getValue(Head(rows), column), LAMBDA v :
             (IF IsNull(v) THEN <<>> ELSE <<v>>) \o NonNullValues(Tail(rows), column))

\* v => parseFloat(v) || v, then the ToNumber that Math.min and Math.max apply
ExtremumOperand(v) ==
    With(ParseFloat(v), LAMBDA f : ToNumber(IF Truthy(f) THEN f ELSE v))

\* vals.length > 0 ? Math.min(...) : null for which = MIN, Math.max for MAX;
\* an operand that is NaN makes the result NaN
Extremum(vals, which) ==
    IF vals = <<>> THEN NullV
    ELSE With([i \in DOMAIN vals |-> ExtremumOperand(vals[i])], LAMBDA ops :
             IF \E i \in DOMAIN ops : ops[i].t # "num" THEN NaNV
             ELSE ops[CHOOSE i \in DOMAIN ops :
                          \A j \in DOMAIN ops :
                              IF which = KW.MIN THEN ops[i].n <= ops[j].n
                              ELSE ops[i].n >= ops[j].n])

\* The switch over col.type, written twice in the code (selectColumns and
\* aggregate) with the same cases.  The quotient of AVG is truncated to the
\* fixed-point precision.
AggregateValue(rows, col) ==
    IF col.type = KW.COUNT
    THEN IF col.column = <<"*">> THEN Int2Num(Len(rows))
         ELSE Int2Num(Len(NonNullValues(rows, col.column)))
    ELSE IF col.type = KW.SUM THEN Num(SumOf(rows, col.column))
    ELSE IF col.type = KW.AVG
    THEN IF Len(rows) > 0 THEN Num(SumOf(rows, col.column) \div Len(rows)) ELSE Num(0)
    ELSE Extremum(NonNullValues(rows, col.column), col.type)

\* the forEach that builds the single row of an aggregation without GROUP BY
RECURSIVE CollapseRow(_, _, _)
CollapseRow(rows, columns, result) ==
    IF columns = <<>> THEN result
    ELSE With(Head(columns), LAMBDA col :
             CollapseRow(rows, Tail(columns),
                 IF col.t = "agg"
                 THEN IF col.type \in AggregateKeywords
                      THEN SetKey(result, AggregateAlias(col), AggregateValue(rows, col))
                      ELSE result
                 ELSE IF col.t = "string" \/ col.column # <<>>
                 THEN SetKey(result, AliasOrColumn(col),
                             IF Len(rows) > 0 THEN getValue(rows[1], col.column)
                             ELSE NullV)
                 ELSE result))

\* the forEach that projects one row: an aggregation is read back under its
\* alias, any other column under its name
RECURSIVE ProjectRow(_, _, _)
ProjectRow(row, columns, result) ==
    IF columns = <<>> THEN result
    ELSE With(Head(columns), LAMBDA col :
             ProjectRow(row, Tail(columns),
                 IF col.t = "agg"
                 THEN SetKey(result, AggregateAlias(col),
                             getValue(row, AggregateAlias(col)))
                 ELSE SetKey(result, AliasOrColumn(col), getValue(row, col.column))))

\* a selectColumns that has no row to give when there are no rows
selectColumnsOfNoRows(rows, columns) ==
    IF Len(columns) = 1 /\ columns[1].t = "string" /\ columns[1].column = <<"*">>
    THEN rows
    ELSE IF rows.s # <<>> /\ \E i \in DOMAIN columns : IsAggregation(columns[i])
    THEN ArrayRef("new", <<CollapseRow(rows.s, columns, EmptyRow)>>)
    ELSE ArrayRef("new", [i \in DOMAIN rows.s |->
                             ProjectRow(rows.s[i], columns, EmptyRow)])

\* selectColumns(rows, columns, false): the array it is given for SELECT *,
\* a new array otherwise
selectColumns(rows, columns) ==
    IF Len(columns) = 1 /\ columns[1].t = "string" /\ columns[1].column = <<"*">>
    THEN rows
    ELSE IF \E i \in DOMAIN columns : IsAggregation(columns[i])
    THEN ArrayRef("new", <<CollapseRow(rows.s, columns, EmptyRow)>>)
    ELSE ArrayRef("new", [i \in DOMAIN rows.s |->
                             ProjectRow(rows.s[i], columns, EmptyRow)])

\* Array.prototype.join
RECURSIVE JoinStrings(_, _)
JoinStrings(parts, sep) ==
    IF parts = <<>> THEN <<>>
    ELSE IF Len(parts) = 1 THEN parts[1]
    ELSE parts[1] \o sep \o JoinStrings(Tail(parts), sep)

getGroupKey(row, groupByColumns) ==
    JoinStrings([i \in DOMAIN groupByColumns |->
                    With(getValue(row, groupByColumns[i]), LAMBDA v :
                        IF Truthy(v) THEN ToStringV(v) ELSE <<>>)],
                <<":", ":">>)

\* the first forEach of aggregate
RECURSIVE CopyGroupKeys(_, _, _)
CopyGroupKeys(first, groupByColumns, result) ==
    IF groupByColumns = <<>> THEN result
    ELSE CopyGroupKeys(first, Tail(groupByColumns),
                       SetKey(result, Head(groupByColumns),
                              getValue(first, Head(groupByColumns))))

\* a second forEach that gives the plain columns a key as well
RECURSIVE ComputeAggregationsAndColumns(_, _, _)
ComputeAggregationsAndColumns(group, columns, result) ==
    IF columns = <<>> THEN result
    ELSE With(Head(columns), LAMBDA col :
             ComputeAggregationsAndColumns(group, Tail(columns),
                 IF IsAggregation(col)
                 THEN SetKey(result, AggregateAlias(col), AggregateValue(group, col))
                 ELSE SetKey(result, AliasOrColumn(col),
                             getValue(group[1], col.column))))

\* the second forEach of aggregate
RECURSIVE ComputeAggregations(_, _, _)
ComputeAggregations(group, columns, result) ==
    IF columns = <<>> THEN result
    ELSE With(Head(columns), LAMBDA col :
             ComputeAggregations(group, Tail(columns),
                 IF IsAggregation(col)
                 THEN SetKey(result, AggregateAlias(col), AggregateValue(group, col))
                 ELSE result))

aggregate(group, groupByColumns, columns) ==
    ComputeAggregations(group, columns,
                        CopyGroupKeys(group[1], groupByColumns, EmptyRow))

\* the keys of the groups with the newest key first, which is not the order
\* of a Map
RECURSIVE GroupKeysNewestFirst(_, _, _)
GroupKeysNewestFirst(rows, groupByColumns, seen) ==
    IF rows = <<>> THEN seen
    ELSE With(getGroupKey(Head(rows), groupByColumns), LAMBDA key :
             GroupKeysNewestFirst(Tail(rows), groupByColumns,
                       IF \E i \in DOMAIN seen : seen[i] = key THEN seen
                       ELSE <<key>> \o seen))

\* the keys of the Map built by groupBy, in insertion order
RECURSIVE GroupKeys(_, _, _)
GroupKeys(rows, groupByColumns, seen) ==
    IF rows = <<>> THEN seen
    ELSE With(getGroupKey(Head(rows), groupByColumns), LAMBDA key :
             GroupKeys(Tail(rows), groupByColumns,
                       IF \E i \in DOMAIN seen : seen[i] = key THEN seen
                       ELSE Append(seen, key)))

groupBy(rows, groupByColumns, columns) ==
    IF groupByColumns = <<>> THEN rows
    ELSE With(GroupKeys(rows, groupByColumns, <<>>), LAMBDA keys :
             [i \in DOMAIN keys |->
                 aggregate(SelectSeq(rows, LAMBDA r :
                               getGroupKey(r, groupByColumns) = keys[i]),
                           groupByColumns, columns)])

-----------------------------------------------------------------------------
(* ORDER BY (query-engine.js 183-200) *)

\* the comparator given to sort
RECURSIVE OrderCompare(_, _, _)
OrderCompare(a, b, orderBy) ==
    IF orderBy = <<>> THEN 0
    ELSE With(Head(orderBy), LAMBDA order :
         With(compareValues(getValue(a, order.column), getValue(b, order.column)),
              LAMBDA comparison :
             IF comparison # 0
             THEN (IF order.direction = KW.DESC THEN 0 - comparison ELSE comparison)
             ELSE OrderCompare(a, b, Tail(orderBy))))

\* an insertion that puts row before the rows it is equal to
RECURSIVE InsertSortedBeforeEqual(_, _, _)
InsertSortedBeforeEqual(sorted, row, orderBy) ==
    IF sorted = <<>> THEN <<row>>
    ELSE IF OrderCompare(row, sorted[Len(sorted)], orderBy) > 0
    THEN Append(sorted, row)
    ELSE Append(InsertSortedBeforeEqual(SubSeq(sorted, 1, Len(sorted) - 1), row,
                                        orderBy),
                sorted[Len(sorted)])

\* insertion of row into a sorted list, after the rows it does not precede
RECURSIVE InsertSorted(_, _, _)
InsertSorted(sorted, row, orderBy) ==
    IF sorted = <<>> THEN <<row>>
    ELSE IF OrderCompare(row, sorted[Len(sorted)], orderBy) >= 0
    THEN Append(sorted, row)
    ELSE Append(InsertSorted(SubSeq(sorted, 1, Len(sorted) - 1), row, orderBy),
                sorted[Len(sorted)])

\* rows.slice().sort(comparator): Array.prototype.sort is stable
RECURSIVE StableSort(_, _)
StableSort(rows, orderBy) ==
    IF rows = <<>> THEN <<>>
    ELSE InsertSorted(StableSort(SubSeq(rows, 1, Len(rows) - 1), orderBy),
                      rows[Len(rows)], orderBy)

\* sort works in place on the array that rows.slice() returned, and returns
\* that array
sortRows(rows, orderBy) ==
    IF orderBy = <<>> THEN rows
    ELSE With(ArraySlice(rows), LAMBDA copy :
             ArrayRef(copy.ref, StableSort(copy.s, orderBy)))

-----------------------------------------------------------------------------
(* JOIN (query-engine.js 290-325) *)

\* on.left.includes('.') ? on.left.split('.') : [null, on.left], second element
JoinColumn(name) == IF HasDot(name) THEN SecondSegment(name) ELSE name

\* { ...rightRow, ...leftRow }, the spread the other way round
MergeLeftWins(leftRow, rightRow) ==
    [k \in DOMAIN leftRow \cup DOMAIN rightRow |->
        IF k \in DOMAIN leftRow THEN leftRow[k] ELSE rightRow[k]]

\* { ...leftRow, ...rightRow }
Merge(leftRow, rightRow) ==
    [k \in DOMAIN leftRow \cup DOMAIN rightRow |->
        IF k \in DOMAIN rightRow THEN rightRow[k] ELSE leftRow[k]]

\* rightEmpty: null under every key of rightRows[0]
RightEmpty(rightRows) ==
    IF rightRows = <<>> THEN EmptyRow
    ELSE [k \in DOMAIN rightRows[1] |-> NullV]

\* a join in which a null value matches nothing, as under SQL's NULL = NULL
JoinOneNullUnmatched(leftRow, rightRows, leftCol, rightCol, type) ==
    With(getValue(leftRow, leftCol), LAMBDA leftValue :
    With(SelectSeq(rightRows, LAMBDA rightRow :
             /\ ~IsNull(leftValue)
             /\ LooseEq(leftValue, getValue(rightRow, rightCol))), LAMBDA matches :
        IF Len(matches) > 0
        THEN [i \in DOMAIN matches |-> Merge(leftRow, matches[i])]
        ELSE IF type = KW.LEFT THEN <<Merge(leftRow, RightEmpty(rightRows))>>
        ELSE <<>>))

\* the body of leftRows.forEach: the rows pushed for one left row
JoinOne(leftRow, rightRows, leftCol, rightCol, type) ==
    With(getValue(leftRow, leftCol), LAMBDA leftValue :
    With(SelectSeq(rightRows, LAMBDA rightRow :
             LooseEq(leftValue, getValue(rightRow, rightCol))), LAMBDA matches :
        IF Len(matches) > 0
        THEN [i \in DOMAIN matches |-> Merge(leftRow, matches[i])]
        ELSE IF type = KW.LEFT THEN <<Merge(leftRow, RightEmpty(rightRows))>>
        ELSE <<>>))

RECURSIVE JoinAll(_, _, _, _, _)
JoinAll(leftRows, rightRows, leftCol, rightCol, type) ==
    IF leftRows = <<>> THEN <<>>
    ELSE JoinOne(Head(leftRows), rightRows, leftCol, rightCol, type)
         \o JoinAll(Tail(leftRows), rightRows, leftCol, rightCol, type)

\* result stays empty when the type is neither INNER nor LEFT
performJoin(leftRows, rightRows, joinSpec) ==
    IF joinSpec.type \in {KW.INNER, KW.LEFT}
    THEN JoinAll(leftRows, rightRows, JoinColumn(joinSpec.on.left),
                 JoinColumn(joinSpec.on.right), joinSpec.type)
    ELSE <<>>

-----------------------------------------------------------------------------
(* executeQuery (query-engine.js 338-374).  data and rightData are ListV of *)
(* rows, or NullV when absent.  The value is [raised, joined, rows, data]: *)
(* joined is the row sequence after the JOIN stage, rows the value         *)
(* returned when raised = "", data what the data array holds when the call *)
(* is over.                                                                *)

\* rows.slice(0, limit): the limit is truncated to an integer, and a
\* negative one counts from the end of the array
Slice(rows, limit) ==
    With(IF limit < 0 THEN 0 - ((0 - limit) \div Scale) ELSE limit \div Scale,
         LAMBDA n :
    With(IF n < 0 THEN Len(rows) + n ELSE n, LAMBDA end :
        SubSeq(rows, 1, IF end < Len(rows) THEN end ELSE Len(rows))))

\* the stages after WHERE with ORDER BY first: the rows that reach the
\* stages are sorted, then grouped or projected
OrderShapeLimit(q, rows) ==
    With(IF ~IsNull(q.orderBy) THEN sortRows(rows, q.orderBy.s) ELSE rows,
         LAMBDA sorted :
    With(IF ~IsNull(q.groupBy) /\ Len(q.groupBy.s) > 0
         THEN ArrayRef("new", groupBy(sorted.s, q.groupBy.s, q.columns))
         ELSE selectColumns(sorted, q.columns), LAMBDA shaped :
        [rows |-> IF Truthy(q.limit) THEN Slice(shaped.s, q.limit.n) ELSE shaped.s,
         sorted |-> sorted]))

\* the stages after WHERE: GROUP BY or SELECT, ORDER BY, LIMIT.  rows is
\* the array that reaches them.  The value is [rows, sorted]: the rows
\* returned and the array as the ORDER BY stage left it.
ShapeOrderLimit(q, rows) ==
    With(IF ~IsNull(q.groupBy) /\ Len(q.groupBy.s) > 0
         THEN ArrayRef("new", groupBy(rows.s, q.groupBy.s, q.columns))
         ELSE selectColumns(rows, q.columns), LAMBDA shaped :
    With(IF ~IsNull(q.orderBy) THEN sortRows(shaped, q.orderBy.s) ELSE shaped,
         LAMBDA sorted :
        [rows |-> IF Truthy(q.limit) THEN Slice(sorted.s, q.limit.n) ELSE sorted.s,
         sorted |-> sorted]))

\* an executeQuery that runs its stages over no rows as well
executeQueryOfAnyData(q, data, rightData) ==
    IF FALSE
    THEN [raised |-> "", joined |-> <<>>, rows |-> <<>>, data |-> data]
    ELSE With(IF ~IsNull(q.join) /\ ~IsNull(rightData)
              THEN ArrayRef("new", performJoin(data.s, rightData.s, q.join))
              ELSE ArraySlice(ArrayRef("data", data.s)), LAMBDA joined :
         With(IF ~IsNull(q.where) THEN FilterRows(joined.s, q.where)
              ELSE [raised |-> "", rows |-> joined.s], LAMBDA filtered :
             IF filtered.raised # ""
             THEN [raised |-> filtered.raised, joined |-> joined.s, rows |-> <<>>,
                   data |-> data]
             ELSE With(ShapeOrderLimit(q, IF ~IsNull(q.where)
                                          THEN ArrayRef("new", filtered.rows)
                                          ELSE joined), LAMBDA out :
                      [raised |-> "", joined |-> joined.s, rows |-> out.rows,
                       data |-> IF out.sorted.ref = "data"
                                THEN ListV(out.sorted.s) ELSE data])))

executeQuery(q, data, rightData) ==
    IF IsNull(data) \/ Len(data.s) = 0
    THEN [raised |-> "", joined |-> <<>>, rows |-> <<>>, data |-> data]
    ELSE With(IF ~IsNull(q.join) /\ ~IsNull(rightData)
              THEN ArrayRef("new", performJoin(data.s, rightData.s, q.join))
              ELSE ArraySlice(ArrayRef("data", data.s)), LAMBDA joined :
         With(IF ~IsNull(q.where) THEN FilterRows(joined.s, q.where)
              ELSE [raised |-> "", rows |-> joined.s], LAMBDA filtered :
             IF filtered.raised # ""
             THEN [raised |-> filtered.raised, joined |-> joined.s, rows |-> <<>>,
                   data |-> data]
             ELSE With(ShapeOrderLimit(q, IF ~IsNull(q.where)
                                          THEN ArrayRef("new", filtered.rows)
                                          ELSE joined), LAMBDA out :
                      [raised |-> "", joined |-> joined.s, rows |-> out.rows,
                       data |-> IF out.sorted.ref = "data"
                                THEN ListV(out.sorted.s) ELSE data])))
-----------------------------------------------------------------------------
(* Query strings given to parseQuery *)

\* the four queries offered by showExamples (app.js 2155-2173), in its
\* order; <star> stands for the character *
ExampleQueries ==
    <<
    \* SELECT host, ip, env WHERE env = "prod" ORDER BY host
      <<"S", "E", "L", "E", "C", "T", " ", "h", "o", "s", "t", ",", " ", "i",
        "p", ",", " ", "e", "n", "v", " ", "W", "H", "E", "R", "E", " ", "e",
        "n", "v", " ", "=", " ", "\"", "p", "r", "o", "d", "\"", " ", "O",
        "R", "D", "E", "R", " ", "B", "Y", " ", "h", "o", "s", "t">>,
    \* SELECT env, COUNT(<star>) as count, MAX(version) as max_version GROUP BY env ORDER BY count DESC
      <<"S", "E", "L", "E", "C", "T", " ", "e", "n", "v", ",", " ", "C", "O",
        "U", "N", "T", "(", "*", ")", " ", "a", "s", " ", "c", "o", "u", "n",
        "t", ",", " ", "M", "A", "X", "(", "v", "e", "r", "s", "i", "o", "n",
        ")", " ", "a", "s", " ", "m", "a", "x", "_", "v", "e", "r", "s", "i",
        "o", "n", " ", "G", "R", "O", "U", "P", " ", "B", "Y", " ", "e", "n",
        "v", " ", "O", "R", "D", "E", "R", " ", "B", "Y", " ", "c", "o", "u",
        "n", "t", " ", "D", "E", "S", "C">>,
    \* SELECT <star> WHERE env = "prod" AND version > "1.0" ORDER BY host
      <<"S", "E", "L", "E", "C", "T", " ", "*", " ", "W", "H", "E", "R", "E",
        " ", "e", "n", "v", " ", "=", " ", "\"", "p", "r", "o", "d", "\"",
        " ", "A", "N", "D", " ", "v", "e", "r", "s", "i", "o", "n", " ", ">",
        " ", "\"", "1", ".", "0", "\"", " ", "O", "R", "D", "E", "R", " ",
        "B", "Y", " ", "h", "o", "s", "t">>,
    \* SELECT host, ip WHERE host LIKE "%prod%" ORDER BY host
      <<"S", "E", "L", "E", "C", "T", " ", "h", "o", "s", "t", ",", " ", "i",
        "p", " ", "W", "H", "E", "R", "E", " ", "h", "o", "s", "t", " ", "L",
        "I", "K", "E", " ", "\"", "%", "p", "r", "o", "d", "%", "\"", " ",
        "O", "R", "D", "E", "R", " ", "B", "Y", " ", "h", "o", "s", "t">>
    >>

\* queries typed into the query field, by name
TestQueries ==
    \* a != 5
    ("notEqual" :>
      <<"a", " ", "!", "=", " ", "5">>) @@
    \* SELECT a WHERE a != 5
    ("whereNotEqual" :>
      <<"S", "E", "L", "E", "C", "T", " ", "a", " ", "W", "H", "E", "R", "E",
        " ", "a", " ", "!", "=", " ", "5">>) @@
    \* SELECT a WHERE a <> 5
    ("whereDiamond" :>
      <<"S", "E", "L", "E", "C", "T", " ", "a", " ", "W", "H", "E", "R", "E",
        " ", "a", " ", "<", ">", " ", "5">>) @@
    \* SELECT id WHERE id <= 1
    ("whereLessEq" :>
      <<"S", "E", "L", "E", "C", "T", " ", "i", "d", " ", "W", "H", "E", "R",
        "E", " ", "i", "d", " ", "<", "=", " ", "1">>) @@
    \* SELECT x WHERE x LIKE "a"
    ("whereLike" :>
      <<"S", "E", "L", "E", "C", "T", " ", "x", " ", "W", "H", "E", "R", "E",
        " ", "x", " ", "L", "I", "K", "E", " ", "\"", "a", "\"">>) @@
    \* SELECT id WHERE id IN (1, 2)
    ("whereIn" :>
      <<"S", "E", "L", "E", "C", "T", " ", "i", "d", " ", "W", "H", "E", "R",
        "E", " ", "i", "d", " ", "I", "N", " ", "(", "1", ",", " ", "2", ")">>) @@
    \* SELECT env GROUP BY env ORDER BY env DESC
    ("groupOrder" :>
      <<"S", "E", "L", "E", "C", "T", " ", "e", "n", "v", " ", "G", "R", "O",
        "U", "P", " ", "B", "Y", " ", "e", "n", "v", " ", "O", "R", "D", "E",
        "R", " ", "B", "Y", " ", "e", "n", "v", " ", "D", "E", "S", "C">>) @@
    \* SELECT env, COUNT(id) AS c GROUP BY env ORDER BY c
    ("groupOrderAgg" :>
      <<"S", "E", "L", "E", "C", "T", " ", "e", "n", "v", ",", " ", "C", "O",
        "U", "N", "T", "(", "i", "d", ")", " ", "A", "S", " ", "c", " ", "G",
        "R", "O", "U", "P", " ", "B", "Y", " ", "e", "n", "v", " ", "O", "R",
        "D", "E", "R", " ", "B", "Y", " ", "c">>) @@
    \* SELECT env FROM t WHERE id > 0 GROUP BY env ORDER BY env LIMIT 1
    ("whereGroupOrderLimit" :>
      <<"S", "E", "L", "E", "C", "T", " ", "e", "n", "v", " ", "F", "R", "O",
        "M", " ", "t", " ", "W", "H", "E", "R", "E", " ", "i", "d", " ", ">",
        " ", "0", " ", "G", "R", "O", "U", "P", " ", "B", "Y", " ", "e", "n",
        "v", " ", "O", "R", "D", "E", "R", " ", "B", "Y", " ", "e", "n", "v",
        " ", "L", "I", "M", "I", "T", " ", "1">>) @@
    \* SELECT env ORDER BY env DESC GROUP BY env
    ("orderGroup" :>
      <<"S", "E", "L", "E", "C", "T", " ", "e", "n", "v", " ", "O", "R", "D",
        "E", "R", " ", "B", "Y", " ", "e", "n", "v", " ", "D", "E", "S", "C",
        " ", "G", "R", "O", "U", "P", " ", "B", "Y", " ", "e", "n", "v">>) @@
    \* SELECT id FROM t ) junk
    ("trailing" :>
      <<"S", "E", "L", "E", "C", "T", " ", "i", "d", " ", "F", "R", "O", "M",
        " ", "t", " ", ")", " ", "j", "u", "n", "k">>) @@
    \* SELECT id, x RIGHT JOIN t ON id = id
    ("rightJoin" :>
      <<"S", "E", "L", "E", "C", "T", " ", "i", "d", ",", " ", "x", " ", "R",
        "I", "G", "H", "T", " ", "J", "O", "I", "N", " ", "t", " ", "O", "N",
        " ", "i", "d", " ", "=", " ", "i", "d">>) @@
    \* SELECT id, x LEFT JOIN t ON id = id
    ("leftJoin" :>
      <<"S", "E", "L", "E", "C", "T", " ", "i", "d", ",", " ", "x", " ", "L",
        "E", "F", "T", " ", "J", "O", "I", "N", " ", "t", " ", "O", "N", " ",
        "i", "d", " ", "=", " ", "i", "d">>) @@
    \* SELECT id, x, env INNER JOIN t ON id = id
    ("innerJoin" :>
      <<"S", "E", "L", "E", "C", "T", " ", "i", "d", ",", " ", "x", ",", " ",
        "e", "n", "v", " ", "I", "N", "N", "E", "R", " ", "J", "O", "I", "N",
        " ", "t", " ", "O", "N", " ", "i", "d", " ", "=", " ", "i", "d">>) @@
    \* SELECT id, x FROM a JOIN b ON a.id = b.id
    ("joinDotted" :>
      <<"S", "E", "L", "E", "C", "T", " ", "i", "d", ",", " ", "x", " ", "F",
        "R", "O", "M", " ", "a", " ", "J", "O", "I", "N", " ", "b", " ", "O",
        "N", " ", "a", ".", "i", "d", " ", "=", " ", "b", ".", "i", "d">>) @@
    \* SELECT id JOIN t
    ("joinNoOn" :>
      <<"S", "E", "L", "E", "C", "T", " ", "i", "d", " ", "J", "O", "I", "N",
        " ", "t">>) @@
    \* SELECT a WHERE a = 1 OR b = 2 AND c = 3
    ("orAnd" :>
      <<"S", "E", "L", "E", "C", "T", " ", "a", " ", "W", "H", "E", "R", "E",
        " ", "a", " ", "=", " ", "1", " ", "O", "R", " ", "b", " ", "=", " ",
        "2", " ", "A", "N", "D", " ", "c", " ", "=", " ", "3">>) @@
    \* SELECT a WHERE NOT a = 1 AND b = 2
    ("notAnd" :>
      <<"S", "E", "L", "E", "C", "T", " ", "a", " ", "W", "H", "E", "R", "E",
        " ", "N", "O", "T", " ", "a", " ", "=", " ", "1", " ", "A", "N", "D",
        " ", "b", " ", "=", " ", "2">>) @@
    \* SELECT a WHERE a = 1 OR (b = 2 AND c = 3)
    ("orParenAnd" :>
      <<"S", "E", "L", "E", "C", "T", " ", "a", " ", "W", "H", "E", "R", "E",
        " ", "a", " ", "=", " ", "1", " ", "O", "R", " ", "(", "b", " ", "=",
        " ", "2", " ", "A", "N", "D", " ", "c", " ", "=", " ", "3", ")">>) @@
    \* SELECT a FROM t JOIN u ON a = b WHERE x = 1
    ("joinWhere" :>
      <<"S", "E", "L", "E", "C", "T", " ", "a", " ", "F", "R", "O", "M", " ",
        "t", " ", "J", "O", "I", "N", " ", "u", " ", "O", "N", " ", "a", " ",
        "=", " ", "b", " ", "W", "H", "E", "R", "E", " ", "x", " ", "=", " ",
        "1">>) @@
    \* SELECT a GROUP BY g ORDER BY o LIMIT 5
    ("groupOrderLimit" :>
      <<"S", "E", "L", "E", "C", "T", " ", "a", " ", "G", "R", "O", "U", "P",
        " ", "B", "Y", " ", "g", " ", "O", "R", "D", "E", "R", " ", "B", "Y",
        " ", "o", " ", "L", "I", "M", "I", "T", " ", "5">>) @@
    \* SELECT a "WHERE" x = 1
    ("quotedWhere" :>
      <<"S", "E", "L", "E", "C", "T", " ", "a", " ", "\"", "W", "H", "E", "R",
        "E", "\"", " ", "x", " ", "=", " ", "1">>) @@
    \* SELECT a, b WHERE NOT x = 1 AND y = 1 ORDER BY a, b DESC GROUP BY g, h (1, 2)
    ("allLoops" :>
      <<"S", "E", "L", "E", "C", "T", " ", "a", ",", " ", "b", " ", "W", "H",
        "E", "R", "E", " ", "N", "O", "T", " ", "x", " ", "=", " ", "1", " ",
        "A", "N", "D", " ", "y", " ", "=", " ", "1", " ", "O", "R", "D", "E",
        "R", " ", "B", "Y", " ", "a", ",", " ", "b", " ", "D", "E", "S", "C",
        " ", "G", "R", "O", "U", "P", " ", "B", "Y", " ", "g", ",", " ", "h",
        " ", "(", "1", ",", " ", "2", ")">>) @@
    \* SELECT COUNT() AS c
    ("countNoArg" :>
      <<"S", "E", "L", "E", "C", "T", " ", "C", "O", "U", "N", "T", "(", ")",
        " ", "A", "S", " ", "c">>)

\* the start of a query whose WHERE condition is a generated fragment
WherePrefix ==
    <<"S", "E", "L", "E", "C", "T", " ", "a", " ", "W", "H", "E", "R", "E",
      " ">>

\* characters of the generated query fragments
FragmentChars == {"a", "5", "=", "!", "<", ">", "(", "\"", " ", "*"}

\* every string over FragmentChars of length at most n
RECURSIVE StringsUpTo(_)
StringsUpTo(n) ==
    IF n = 0 THEN {<<>>}
    ELSE With(StringsUpTo(n - 1), LAMBDA shorter :
             shorter \cup {Append(s, c) : s \in shorter, c \in FragmentChars})

\* the strings given to parseQuery: the examples, the named queries, every
\* fragment on its own and every fragment in the place of a WHERE condition
Queries ==
    Range(ExampleQueries) \cup Range(TestQueries) \cup StringsUpTo(MaxLen)
    \cup {WherePrefix \o f : f \in StringsUpTo(MaxLen)}

-----------------------------------------------------------------------------
(* Row sets given to executeQuery *)

\* column names
Col ==
    [id |-> <<"i", "d">>, x |-> <<"x">>, env |-> <<"e", "n", "v">>,
     v |-> <<"v">>, c |-> <<"c">>, s |-> <<"s">>, lo |-> <<"l", "o">>,
     hi |-> <<"h", "i">>, ak |-> <<"a", ".", "k">>, bk |-> <<"b", ".", "k">>,
     k |-> <<"k">>, tv |-> <<"t", ".", "v">>]

\* primary rows: {id: 1}, {id: 2}, {id: "1", x: "B", env: "prod"}
PrimaryRows ==
    << (Col.id :> Int2Num(1)),
       (Col.id :> Int2Num(2)),
       (Col.id :> Str(<<"1">>)) @@ (Col.x :> Str(<<"B">>))
           @@ (Col.env :> Str(<<"p", "r", "o", "d">>)) >>

\* secondary rows: {id: 1, x: "A"}, {id: "2", env: "dev"}, {x: "C"}
SecondaryRows ==
    << (Col.id :> Int2Num(1)) @@ (Col.x :> Str(<<"A">>)),
       (Col.id :> Str(<<"2">>)) @@ (Col.env :> Str(<<"d", "e", "v">>)),
       (Col.x :> Str(<<"C">>)) >>

\* every sequence over pool of length at most n
RECURSIVE SeqsUpTo(_, _)
SeqsUpTo(pool, n) ==
    IF n = 0 THEN {<<>>}
    ELSE With(SeqsUpTo(pool, n - 1), LAMBDA shorter :
             shorter \cup {Append(s, r) : s \in shorter, r \in pool})

\* data: an array of rows, or absent
Datasets == {ListV(s) : s \in SeqsUpTo(Range(PrimaryRows), MaxRows)} \cup {NullV}
\* options.rightData: an array of rows, or absent
RightDatasets ==
    {ListV(s) : s \in SeqsUpTo(Range(SecondaryRows), MaxRightRows)} \cup {NullV}

-----------------------------------------------------------------------------
(* ASTs given to executeQuery directly (it is exported on its own) *)

\* LIKE patterns: %a%, _, (, (a), b), *
LikePatterns ==
    {<<"%", "a", "%">>, <<"_">>, <<"(">>, <<"(", "a", ")">>, <<"b", ")">>, <<"*">>}

\* an AST of the shape parse returns
Query(columns, where, orderBy, groupByColumns, join, limit) ==
    [type |-> KW.SELECT, columns |-> columns, from |-> NullV, where |-> where,
     orderBy |-> orderBy, groupBy |-> groupByColumns, join |-> join, limit |-> limit]

\* SELECT * with a WHERE condition, or a join
StarQuery(where, join) ==
    Query(<<Column("string", <<>>, <<"*">>, NullV)>>, where, NullV, NullV, join, NullV)

\* SELECT * WHERE x LIKE pattern, for every pattern;
\* SELECT * <kind> JOIN t ON id = id, for every kind;
\* SELECT * WHERE id IN (1, "2"); SELECT *;
\* SELECT COUNT(<star>) AS n, MIN(x), AVG(id) GROUP BY env LIMIT 1
DirectQueries ==
    {StarQuery(CondCmp(KW.LIKE, Col.x, Str(p)), NullV) : p \in LikePatterns}
    \cup {StarQuery(NullV, JoinSpec(k, <<"t">>, Col.id, Col.id)) :
              k \in {KW.INNER, KW.LEFT, KW.RIGHT}}
    \cup {StarQuery(CondCmp(KW["IN"], Col.id,
                            ArrayV(<<Int2Num(1), Str(<<"2">>)>>)), NullV),
          StarQuery(NullV, NullV),
          Query(<<Column("agg", KW.COUNT, <<"*">>, Str(<<"n">>)),
                  Column("agg", KW.MIN, Col.x, NullV),
                  Column("agg", KW.AVG, Col.id, NullV)>>,
                NullV, NullV, ListV(<<Col.env>>), NullV, Int2Num(1))}

-----------------------------------------------------------------------------
(* Tables given to executeQuery, and the ASTs run over them *)

\* the rows of the tables, by kind of table:
\*   groups  {env:"prod", v:1}, {env:"prod", v:3}, {env:"dev", v:5},
\*           {env:"dev", v:0}, {env:"prod"}, {v:"abc"}
\*   sort    {v:"10"}, {v:"2"}, {v:"abc"}, {v:2}, {env:"dev"}
\*   text    {v:"abc"}, {v:"xABCx"}, {v:"ac"}, {v:"abbc"}, {v:"abc\n"}
\*   join    {"a.k":1}, {k:null}, {k:1}, with the secondary rows
\*   right   {"b.k":1}, {"b.k":2}, {k:1}
TableRows ==
    [groups |->
        << (Col.env :> Str(<<"p", "r", "o", "d">>)) @@ (Col.v :> Int2Num(1)),
           (Col.env :> Str(<<"p", "r", "o", "d">>)) @@ (Col.v :> Int2Num(3)),
           (Col.env :> Str(<<"d", "e", "v">>)) @@ (Col.v :> Int2Num(5)),
           (Col.env :> Str(<<"d", "e", "v">>)) @@ (Col.v :> Int2Num(0)),
           (Col.env :> Str(<<"p", "r", "o", "d">>)),
           (Col.v :> Str(<<"a", "b", "c">>)) >>,
     sort |->
        << (Col.v :> Str(<<"1", "0">>)),
           (Col.v :> Str(<<"2">>)),
           (Col.v :> Str(<<"a", "b", "c">>)),
           (Col.v :> Int2Num(2)),
           (Col.env :> Str(<<"d", "e", "v">>)) >>,
     text |->
        << (Col.v :> Str(<<"a", "b", "c">>)),
           (Col.v :> Str(<<"x", "A", "B", "C", "x">>)),
           (Col.v :> Str(<<"a", "c">>)),
           (Col.v :> Str(<<"a", "b", "b", "c">>)),
           (Col.v :> Str(<<"a", "b", "c", "\n">>)) >>,
     join |->
        << (Col.ak :> Int2Num(1)), (Col.k :> NullV), (Col.k :> Int2Num(1)) >>,
     right |->
        << (Col.bk :> Int2Num(1)), (Col.bk :> Int2Num(2)), (Col.k :> Int2Num(1)) >>]

\* the ASTs, by kind of table:
\*   groups  SELECT * WHERE v IN (), ("5"), (2, "abc"), (5, 1)
\*           SELECT env, COUNT(<star>) AS c, SUM(v) AS s GROUP BY env | v | env, v
\*           SELECT COUNT(<star>) AS c
\*           SELECT x, env AS id, COUNT(<star>), SUM(v) AS s GROUP BY env
\*           SELECT env, COUNT(<star>) AS c, SUM(v) AS s, COUNT(v) [WHERE v > 3]
\*           SELECT MIN(v) AS lo, MAX(v) AS hi [GROUP BY env]
\*   sort    SELECT * [ORDER BY v] LIMIT 0, LIMIT 2
\*           SELECT * ORDER BY v | v DESC | env | env, v DESC | env DESC, v
\*           SELECT env | v | v AS x ORDER BY v | x | t.v DESC
\*           SELECT env, COUNT(<star>) AS c GROUP BY v ORDER BY env | c | v | t.v DESC
\*           SELECT * WHERE v > "2", v >= 3, v < "abc", v <= "10"
\*   text    SELECT * WHERE v LIKE "%abc%", "a_c", "a.c"
\*           SELECT * WHERE v ! "abc", WHERE NOT v ! "abc"
\*   join    SELECT * INNER | LEFT | RIGHT JOIN t ON a.k = b.k
\*           SELECT * INNER | LEFT JOIN t ON k = k
TableQueries ==
    [groups |->
        {StarQuery(CondCmp(KW["IN"], Col.v, ArrayV(list)), NullV) :
            list \in {<<>>, <<Str(<<"5">>)>>, <<Int2Num(2), Str(<<"a", "b", "c">>)>>,
                      <<Int2Num(5), Int2Num(1)>>}}
        \cup {Query(<<Column("string", <<>>, Col.env, NullV),
                      Column("agg", KW.COUNT, <<"*">>, Str(Col.c)),
                      Column("agg", KW.SUM, Col.v, Str(Col.s))>>,
                    NullV, NullV, ListV(by), NullV, NullV) :
                 by \in {<<Col.env>>, <<Col.v>>, <<Col.env, Col.v>>}}
        \cup {Query(<<Column("agg", KW.COUNT, <<"*">>, Str(Col.c))>>,
                    NullV, NullV, NullV, NullV, NullV),
              Query(<<Column("string", <<>>, Col.x, NullV),
                      Column("alias", <<>>, Col.env, Str(Col.id)),
                      Column("agg", KW.COUNT, <<"*">>, NullV),
                      Column("agg", KW.SUM, Col.v, Str(Col.s))>>,
                    NullV, NullV, ListV(<<Col.env>>), NullV, NullV)}
        \cup {Query(<<Column("string", <<>>, Col.env, NullV),
                      Column("agg", KW.COUNT, <<"*">>, Str(Col.c)),
                      Column("agg", KW.SUM, Col.v, Str(Col.s)),
                      Column("agg", KW.COUNT, Col.v, NullV)>>,
                    where, NullV, NullV, NullV, NullV) :
                 where \in {NullV, CondCmp(<<">">>, Col.v, Int2Num(3))}}
        \cup {Query(<<Column("agg", KW.MIN, Col.v, Str(Col.lo)),
                      Column("agg", KW.MAX, Col.v, Str(Col.hi))>>,
                    NullV, NullV, by, NullV, NullV) :
                 by \in {NullV, ListV(<<Col.env>>)}},
     sort |->
        {Query(StarQuery(NullV, NullV).columns, NullV, order, NullV, NullV,
               Int2Num(limit)) :
            order \in {NullV, ListV(<<[column |-> Col.v, direction |-> KW.ASC]>>)},
            limit \in {0, 2}}
        \cup {Query(StarQuery(NullV, NullV).columns, NullV, ListV(order),
                    NullV, NullV, NullV) :
                 order \in {<<[column |-> Col.v, direction |-> KW.ASC]>>,
                            <<[column |-> Col.v, direction |-> KW.DESC]>>,
                            <<[column |-> Col.env, direction |-> KW.ASC]>>,
                            <<[column |-> Col.env, direction |-> KW.ASC],
                              [column |-> Col.v, direction |-> KW.DESC]>>,
                            <<[column |-> Col.env, direction |-> KW.DESC],
                              [column |-> Col.v, direction |-> KW.ASC]>>}}
        \cup {Query(columns, NullV, ListV(<<[column |-> by, direction |-> KW.DESC]>>),
                    NullV, NullV, NullV) :
                 columns \in {<<Column("string", <<>>, Col.env, NullV)>>,
                              <<Column("string", <<>>, Col.v, NullV)>>,
                              <<Column("alias", <<>>, Col.v, Str(Col.x))>>},
                 by \in {Col.v, Col.x, Col.tv}}
        \cup {Query(<<Column("string", <<>>, Col.env, NullV),
                      Column("agg", KW.COUNT, <<"*">>, Str(Col.c))>>,
                    NullV, ListV(<<[column |-> by, direction |-> KW.DESC]>>),
                    ListV(<<Col.v>>), NullV, NullV) :
                 by \in {Col.env, Col.c, Col.v, Col.tv}}
        \cup {StarQuery(CondCmp(<<">">>, Col.v, Str(<<"2">>)), NullV),
              StarQuery(CondCmp(<<">", "=">>, Col.v, Int2Num(3)), NullV),
              StarQuery(CondCmp(<<"<">>, Col.v, Str(<<"a", "b", "c">>)), NullV),
              StarQuery(CondCmp(<<"<", "=">>, Col.v, Str(<<"1", "0">>)), NullV)},
     text |->
        {StarQuery(CondCmp(KW.LIKE, Col.v, Str(pattern)), NullV) :
            pattern \in {<<"%", "a", "b", "c", "%">>, <<"a", "_", "c">>, <<"a", ".", "c">>}}
        \cup {StarQuery(CondCmp(<<"!">>, Col.v, Str(<<"a", "b", "c">>)), NullV),
              StarQuery(CondNot(CondCmp(<<"!">>, Col.v, Str(<<"a", "b", "c">>))), NullV)},
     join |->
        {StarQuery(NullV, JoinSpec(type, <<"t">>, Col.ak, Col.bk)) :
            type \in {KW.INNER, KW.LEFT, KW.RIGHT}}
        \cup {StarQuery(NullV, JoinSpec(type, <<"t">>, Col.k, Col.k)) :
                 type \in {KW.INNER, KW.LEFT}}]

\* the calls of one kind: an AST, the primary rows (or no data) and
\* options.rightData
TableCases(kind) ==
    {[q |-> q, d |-> d, r |-> r] :
        q \in TableQueries[kind],
        d \in {ListV(rows) :
                  rows \in SeqsUpTo(Range(TableRows[kind]), MaxTableRows)}
              \cup {NullV},
        r \in IF kind = "join"
              THEN {ListV(rows) :
                       rows \in SeqsUpTo(Range(TableRows.right), MaxRightRows)}
              ELSE {NullV}}
-----------------------------------------------------------------------------
(* State *)

VARIABLES
    pc,             \* "idle", "lexing", "lexed", "parsed", "failed", "done"
    input,          \* Lexer.input (the trimmed query)
    position,       \* Lexer.position
    tokens,         \* the array built by tokenize
    parserPosition, \* Parser.position when parse returned
    ast,            \* the AST returned by parse, or given to executeQuery
    parseError,     \* "" or the throw statement that ended parseQuery
    data,           \* executeQuery's data argument
    rightData,      \* executeQuery's options.rightData
    joined,         \* the rows after the JOIN stage of executeQuery
    result,         \* the rows returned by executeQuery
    dataAfter,      \* what the data array holds after executeQuery
    raised          \* "" or the exception that left executeQuery

vars == <<pc, input, position, tokens, parserPosition, ast, parseError,
          data, rightData, joined, result, dataAfter, raised>>

lexerVars == <<input, position, tokens>>
parserVars == <<parserPosition, ast, parseError>>
execVars == <<data, rightData, joined, result, dataAfter, raised>>

Init ==
    /\ pc = "idle"
    /\ input = <<>>
    /\ position = 0
    /\ tokens = <<>>
    /\ parserPosition = 0
    /\ ast = NullV
    /\ parseError = ""
    /\ data = NullV
    /\ rightData = NullV
    /\ joined = <<>>
    /\ result = <<>>
    /\ dataAfter = NullV
    /\ raised = ""

\* parseQuery(query): new Lexer(query)
Submit ==
    /\ pc = "idle"
    /\ pc' = "lexing"
    /\ \E query \in Queries : input' = Trim(query)
    /\ position' = 0
    /\ tokens' = <<>>
    /\ UNCHANGED parserVars
    /\ UNCHANGED execVars

\* the tokens pushed by calls of nextToken that read no character
SpinCount(toks) ==
    Cardinality({i \in DOMAIN toks :
                    /\ toks[i].type = TOKEN_TYPES.IDENTIFIER
                    /\ toks[i].value = Str(<<>>)})

\* One iteration of the loop of tokenize: a call of nextToken and the push of
\* its token.  The loop has no exit but the EOF token; of the iterations
\* that read no character, MaxSpin are followed.
Tokenize ==
    /\ pc = "lexing"
    /\ SpinCount(tokens) < MaxSpin
    /\ \E r \in {nextToken(input, position)} :
           /\ tokens' = Append(tokens, r.token)
           /\ position' = r.pos
           /\ pc' = IF r.token.type = TOKEN_TYPES.EOF THEN "lexed" ELSE "lexing"
    /\ UNCHANGED input
    /\ UNCHANGED parserVars
    /\ UNCHANGED execVars

\* a parseQuery that hands out an unfinished AST when the parser throws
ParseTokensKeepsPartialAst ==
    /\ pc = "lexed"
    /\ \E r \in {parse(tokens)} :
           IF r.err # ""
           THEN /\ pc' = "failed"
                /\ parseError' = r.err
                /\ ast' = [type |-> KW.SELECT]
                /\ parserPosition' = 0
           ELSE /\ pc' = "parsed"
                /\ parseError' = ""
                /\ ast' = r.val
                /\ parserPosition' = r.pos
    /\ UNCHANGED lexerVars
    /\ UNCHANGED execVars

\* parseQuery(query): new Parser(tokens).parse(), returned or thrown again
ParseTokens ==
    /\ pc = "lexed"
    /\ \E r \in {parse(tokens)} :
           IF r.err # ""
           THEN /\ pc' = "failed"
                /\ parseError' = r.err
                /\ ast' = NullV
                /\ parserPosition' = 0
           ELSE /\ pc' = "parsed"
                /\ parseError' = ""
                /\ ast' = r.val
                /\ parserPosition' = r.pos
    /\ UNCHANGED lexerVars
    /\ UNCHANGED execVars

\* executeQuery(q, d, { rightData: r }) and what it left
Execute(q, d, r) ==
    \E out \in {executeQuery(q, d, r)} :
        /\ data' = d
        /\ rightData' = r
        /\ joined' = out.joined
        /\ result' = out.rows
        /\ dataAfter' = out.data
        /\ raised' = out.raised
        /\ pc' = "done"

\* executeQuery on the AST that parseQuery returned (app.js 2040-2047)
RunQuery ==
    /\ pc = "parsed"
    /\ \E d \in Datasets, r \in RightDatasets : Execute(ast, d, r)
    /\ UNCHANGED parserVars
    /\ UNCHANGED lexerVars

\* executeQuery called with an AST of the documented shape
CallExecuteQuery ==
    /\ pc = "idle"
    /\ \E q \in DirectQueries, d \in Datasets, r \in RightDatasets :
           /\ ast' = q
           /\ Execute(q, d, r)
    /\ UNCHANGED <<parserPosition, parseError>>
    /\ UNCHANGED lexerVars

Next ==
    \/ Submit
    \/ Tokenize
    \/ ParseTokens
    \/ RunQuery
    \/ CallExecuteQuery

Spec == Init /\ [][Next]_vars


-----------------------------------------------------------------------------
(* The query engine on its own: executeQuery called over the tables *)

\* executeQuery(q, d, { rightData: r }) for one of the calls
ExecuteOnTable ==
    /\ pc = "idle"
    /\ \E kind \in DOMAIN TableQueries : \E c \in TableCases(kind) :
           /\ ast' = c.q
           /\ Execute(c.q, c.d, c.r)
    /\ UNCHANGED <<parserPosition, parseError>>
    /\ UNCHANGED lexerVars

EngineSpec == Init /\ [][ExecuteOnTable]_vars


-----------------------------------------------------------------------------
(* One query after another: every call of parseQuery makes a new Lexer and  *)
(* a new Parser, while what the call before has left is still there        *)

\* a parseQuery that goes on with the lexer of the call before
ResubmitWithSameLexer ==
    /\ pc \in {"idle", "failed", "done"}
    /\ pc' = "lexing"
    /\ \E name \in {"whereLessEq", "innerJoin", "leftJoin", "joinNoOn"} :
           input' = Trim(TestQueries[name])
    /\ position' = position
    /\ tokens' = <<>>
    /\ UNCHANGED parserVars
    /\ UNCHANGED execVars

\* parseQuery(query), first or after another query: new Lexer(query)
Resubmit ==
    /\ pc \in {"idle", "failed", "done"}
    /\ pc' = "lexing"
    /\ \E name \in {"whereLessEq", "innerJoin", "leftJoin", "joinNoOn"} :
           input' = Trim(TestQueries[name])
    /\ position' = 0
    /\ tokens' = <<>>
    /\ UNCHANGED parserVars
    /\ UNCHANGED execVars

\* executeQuery on the AST of the query over the rows of the sheet, with or
\* without the rows of a second sheet (app.js 2040-2047)
RunOnSheet ==
    /\ pc = "parsed"
    /\ \E r \in {ListV(SecondaryRows), NullV} : Execute(ast, ListV(PrimaryRows), r)
    /\ UNCHANGED parserVars
    /\ UNCHANGED lexerVars

SessionSpec == Init /\ [][Resubmit \/ Tokenize \/ ParseTokens \/ RunOnSheet]_vars
-----------------------------------------------------------------------------
(* Properties of the lexer and the parser *)

\* The lexer has not reached the end of its input.  (The input is trimmed,
\* so what is left is not white space only.)
NotExhausted == pc = "lexing" /\ position < Len(input)

\* C1: every call of nextToken on an input that is not exhausted advances
\* the lexer position by at least one character (which is what makes
\* tokenize terminate on every input), and once tokenize has returned, the
\* EOF token is the last token of the array and only the last.
C1_NextTokenAdvances ==
    /\ [][NotExhausted => position' > position]_vars
    /\ [](pc \notin {"idle", "lexing"} /\ tokens # <<>>
            => \A i \in DOMAIN tokens :
                   (tokens[i].type = TOKEN_TYPES.EOF) <=> (i = Len(tokens)))

\* C2: each of the four queries of showExamples is accepted by parseQuery:
\* no call of nextToken leaves the lexer where it was, and parse returns an
\* AST instead of throwing.
C2_ExamplesAccepted ==
    input \in Range(ExampleQueries)
        => /\ SpinCount(tokens) = 0
           /\ pc # "failed"
           /\ pc \in {"parsed", "done"} => ast.type = KW.SELECT

KeywordToken(word) == [type |-> TOKEN_TYPES.KEYWORD, value |-> Str(word)]

\* the keyword GROUP comes before the first keyword ORDER
GroupPrecedesOrder(toks) ==
    \E i, j \in DOMAIN toks :
        /\ i < j
        /\ toks[i] = KeywordToken(KW.GROUP)
        /\ toks[j] = KeywordToken(KW.ORDER)
        /\ \A k \in 1..i : toks[k] # KeywordToken(KW.ORDER)

\* the rows that reach the GROUP BY stage
RowsToGroup ==
    IF IsNull(ast.where) THEN joined ELSE FilterRows(joined, ast.where).rows

\* the indices of the rows that are the first of their group
FirstOfGroup(rows, columns) ==
    {i \in DOMAIN rows :
        \A j \in 1..(i - 1) :
            getGroupKey(rows[j], columns) # getGroupKey(rows[i], columns)}

\* rows holds one row for every group, in the order in which the groups
\* first occur in source, with the group's values of the grouping columns
InFirstSeenOrder(rows, source, columns) ==
    /\ Len(rows) = Cardinality(FirstOfGroup(source, columns))
    /\ \A i \in FirstOfGroup(source, columns) :
           \A c \in Range(columns) :
               rows[Cardinality({j \in FirstOfGroup(source, columns) : j <= i})][c]
                   = getValue(source[i], c)

C7_NotEqualIsOneToken ==
    /\ (input = TestQueries.notEqual /\ pc \notin {"idle", "lexing"})
           => tokens = <<[type |-> TOKEN_TYPES.IDENTIFIER, value |-> Str(<<"a">>)],
                         [type |-> TOKEN_TYPES.OPERATOR, value |-> Str(<<"!", "=">>)],
                         [type |-> TOKEN_TYPES.NUMBER, value |-> Int2Num(5)],
                         EOFToken>>
    /\ (input = TestQueries.whereNotEqual /\ pc \in {"parsed", "failed", "done"})
           => /\ pc # "failed"
              /\ ast.where.type = <<"!", "=">>

\* C8: a WHERE comparison whose operator is LIKE or IN is accepted by the
\* parser and gives a comparison node of that type.
C8_LikeAndInAccepted ==
    (input \in {TestQueries.whereLike, TestQueries.whereIn}
        /\ pc \in {"parsed", "failed", "done"})
        => /\ pc # "failed"
           /\ ast.where.type \in {KW.LIKE, KW["IN"]}

-----------------------------------------------------------------------------
(* Properties of the executor *)

\* executeQuery was called with a join of the given kind, primary rows and
\* options.rightData
JoinRan(kind) ==
    /\ pc = "done"
    /\ ~IsNull(ast.join)
    /\ ast.join.type = kind
    /\ ~IsNull(data)
    /\ data.s # <<>>
    /\ ~IsNull(rightData)

\* the join-column values of primary row i and secondary row j are loosely
\* equal
JoinMatch(i, j) ==
    LooseEq(getValue(data.s[i], JoinColumn(ast.join.on.left)),
            getValue(rightData.s[j], JoinColumn(ast.join.on.right)))

\* C4: with a join of kind RIGHT and secondary rows supplied, the join
\* stage yields exactly the primary rows, in their order.
C4_RightJoinPassesThrough == JoinRan(KW.RIGHT) => joined = data.s

\* C5: in a LEFT join, every primary row without a match yields a row that
\* carries the primary row's own values and null for the other columns of
\* the secondary rows; for primary [{id:1},{id:2}] and secondary
\* [{id:1,x:"A"}] the second of the two rows has id = 2 and x = null.
C5_LeftJoinKeepsUnmatchedRow ==
    JoinRan(KW.LEFT)
        => /\ \A i \in DOMAIN data.s :
                  (\A j \in DOMAIN rightData.s : ~JoinMatch(i, j))
                      => \E k \in DOMAIN joined :
                             /\ DOMAIN data.s[i] \subseteq DOMAIN joined[k]
                             /\ \A c \in DOMAIN data.s[i] :
                                    joined[k][c] = data.s[i][c]
                             /\ \A c \in DOMAIN joined[k] \ DOMAIN data.s[i] :
                                    IsNull(joined[k][c])
           /\ (/\ data.s = <<PrimaryRows[1], PrimaryRows[2]>>
               /\ rightData.s = <<SecondaryRows[1]>>)
                  => /\ Len(joined) = 2
                     /\ joined[2][Col.id] = Int2Num(2)
                     /\ IsNull(joined[2][Col.x])

\* the pairs of a primary and a secondary row that match
MatchingPairs ==
    {p \in (DOMAIN data.s) \X (DOMAIN rightData.s) : JoinMatch(p[1], p[2])}

\* the place of a matching pair, by primary row and then by secondary row
PairRank(p) ==
    Cardinality({q \in MatchingPairs :
                    q[1] < p[1] \/ (q[1] = p[1] /\ q[2] <= p[2])})

\* C6: for an INNER join with secondary rows supplied, the joined sequence
\* holds exactly one row for every matching pair, ordered by primary row
\* and then by secondary row; the row has the keys of both rows, with the
\* secondary row's value under a key that both have.  (A primary row
\* without a match is in no pair, so it gives no row.)
C6_InnerJoinMergesMatchingPairs ==
    JoinRan(KW.INNER)
        => /\ Len(joined) = Cardinality(MatchingPairs)
           /\ \A p \in MatchingPairs :
                  joined[PairRank(p)]
                      = [c \in DOMAIN data.s[p[1]] \cup DOMAIN rightData.s[p[2]] |->
                            IF c \in DOMAIN rightData.s[p[2]]
                            THEN rightData.s[p[2]][c]
                            ELSE data.s[p[1]][c]]

\* C6, witness: an INNER join in which the first primary row ({id:"1",
\* x:"B", env:"prod"}) matches two secondary rows that have another x, and
\* the second primary row matches none.
C6_Witness ==
    /\ JoinRan(KW.INNER)
    /\ Len(data.s) = 2
    /\ Len(joined) = 2
    /\ {p[1] : p \in MatchingPairs} = {1}
    /\ {Col.x, Col.env} \subseteq DOMAIN data.s[1]
    /\ joined[1][Col.x] # data.s[1][Col.x]
    /\ joined[2][Col.env] = data.s[1][Col.env]

\* C10: executeQuery never raises.
C10_ExecuteQueryNeverRaises == raised = ""

-----------------------------------------------------------------------------
(* Properties of the query engine over the tables *)

\* executeQuery has run SELECT * WHERE <one comparison of the given type>,
\* without join, grouping, order or limit
WhereRan(type) ==
    /\ pc = "done"
    /\ ~IsNull(ast.where)
    /\ ast.where.type = type
    /\ IsNull(ast.join) /\ IsNull(ast.groupBy) /\ IsNull(ast.orderBy)
    /\ IsNull(ast.limit)
    /\ ast.columns = StarQuery(NullV, NullV).columns

\* C11: an IN comparison keeps exactly the rows whose column value loosely
\* equals (the text "5" equals the number 5) at least one element of the
\* list; with an empty list it keeps none.
C11_InIsLooseMembership ==
    WhereRan(KW["IN"])
        => /\ raised = ""
           /\ result = SelectSeq(data.s, LAMBDA row :
                           \E i \in DOMAIN ast.where.value.items :
                               LooseEq(getValue(row, ast.where.column),
                                       ast.where.value.items[i]))

\* executeQuery has run SELECT * with a limit that is a number N >= 0,
\* without join, WHERE or grouping
LimitRan ==
    /\ pc = "done"
    /\ ~IsNull(ast.limit)
    /\ ast.limit.t = "num" /\ ast.limit.n >= 0
    /\ IsNull(ast.join) /\ IsNull(ast.where) /\ IsNull(ast.groupBy)
    /\ ast.columns = StarQuery(NullV, NullV).columns

\* the rows after the order stage of such a query
PostSort == IF IsNull(ast.orderBy) THEN data.s ELSE StableSort(data.s, ast.orderBy.s)

\* C12: with a limit N >= 0 (0 included) the result is exactly the first
\* min(N, k) rows of the k rows that leave the order stage, so it never has
\* more than N rows.
C12_LimitKeepsFirstRows ==
    LimitRan
        => /\ raised = ""
           /\ Len(result) <= ast.limit.n \div Scale
           /\ result = SubSeq(PostSort, 1,
                              IF ast.limit.n \div Scale < Len(PostSort)
                              THEN ast.limit.n \div Scale ELSE Len(PostSort))

\* executeQuery has run a query with GROUP BY, without join, WHERE, order or
\* limit
GroupRan ==
    /\ pc = "done"
    /\ ~IsNull(ast.groupBy)
    /\ ast.groupBy.s # <<>>
    /\ IsNull(ast.join) /\ IsNull(ast.where) /\ IsNull(ast.orderBy)
    /\ IsNull(ast.limit)

\* the values of the group-by columns in a row
GroupValues(row) == [i \in DOMAIN ast.groupBy.s |-> getValue(row, ast.groupBy.s[i])]

\* the indices of the rows of data that are the first with their combination
\* of group-by values
FirstOfCombination ==
    {i \in DOMAIN data.s :
        \A j \in 1..(i - 1) : GroupValues(data.s[j]) # GroupValues(data.s[i])}

\* the rows of data with the combination of group-by values of row i
SameCombination(i) ==
    SelectSeq(data.s, LAMBDA row : GroupValues(row) = GroupValues(data.s[i]))

\* C13: with GROUP BY, executeQuery returns exactly one row for every
\* distinct combination of group-by values, in the order in which the
\* combinations first occur; the row carries the combination, COUNT(*) is
\* the number of rows with that combination and SUM(col) the sum of their
\* values, a value that is not a number counting as 0.
C13_OneRowPerCombination ==
    GroupRan
        => /\ raised = ""
           /\ Len(result) = Cardinality(FirstOfCombination)
           /\ \A i \in FirstOfCombination :
                  \E r \in {Cardinality({j \in FirstOfCombination : j <= i})} :
                      /\ \A c \in DOMAIN ast.groupBy.s :
                             result[r][ast.groupBy.s[c]] = GroupValues(data.s[i])[c]
                      /\ \A c \in DOMAIN ast.columns :
                             /\ (ast.columns[c].type = KW.COUNT
                                     /\ ast.columns[c].column = <<"*">>)
                                    => result[r][AggregateAlias(ast.columns[c])]
                                           = Int2Num(Len(SameCombination(i)))
                             /\ ast.columns[c].type = KW.SUM
                                    => result[r][AggregateAlias(ast.columns[c])]
                                           = Num(SumOf(SameCombination(i),
                                                       ast.columns[c].column))

\* executeQuery has run, over at least one row, a query whose select list
\* has an aggregate call, without GROUP BY, join, order or limit
AggregateRan ==
    /\ pc = "done"
    /\ data.s # <<>>
    /\ \E c \in DOMAIN ast.columns : ast.columns[c].type \in AggregateKeywords
    /\ IsNull(ast.groupBy) /\ IsNull(ast.join) /\ IsNull(ast.orderBy)
    /\ IsNull(ast.limit)

\* the rows of data that the WHERE of such a query keeps
Filtered == IF IsNull(ast.where) THEN data.s ELSE FilterRows(data.s, ast.where).rows

\* C14: a select list with an aggregate call and no GROUP BY gives exactly
\* one row over a non-empty primary row set, whatever the number of rows
\* that pass WHERE (none included): every aggregate is computed over all
\* the rows that pass, COUNT(*) being their number, and every plain column
\* has the value of the first row that passes (null when none does).
C14_AggregateWithoutGroupByGivesOneRow ==
    AggregateRan
        => /\ raised = ""
           /\ Len(result) = 1
           /\ \A c \in DOMAIN ast.columns :
                  IF ast.columns[c].type \in AggregateKeywords
                  THEN /\ result[1][AggregateAlias(ast.columns[c])]
                              = AggregateValue(Filtered, ast.columns[c])
                       /\ (ast.columns[c].type = KW.COUNT
                               /\ ast.columns[c].column = <<"*">>)
                              => result[1][AggregateAlias(ast.columns[c])]
                                     = Int2Num(Len(Filtered))
                  ELSE result[1][ast.columns[c].column]
                           = IF Filtered = <<>> THEN NullV
                             ELSE getValue(Filtered[1], ast.columns[c].column)

\* C14, reached: over three rows, WHERE v > 3 has dropped the first row and
\* kept two; the single row counts 2 and has the env of the second row of
\* data.
C14_Witness ==
    /\ AggregateRan
    /\ Len(data.s) = 3
    /\ Len(Filtered) = 2
    /\ Filtered[1] = data.s[2]
    /\ Len(result) = 1
    /\ {Col.c, Col.env} \subseteq DOMAIN result[1]
    /\ Col.env \in DOMAIN data.s[2]
    /\ result[1][Col.c] = Int2Num(2)
    /\ result[1][Col.env] = data.s[2][Col.env]
    /\ result[1][Col.env] # getValue(data.s[1], Col.env)

\* the non-null values of v in the rows of a group, as a set
ValuesOf(group) ==
    {getValue(group[i], Col.v) : i \in DOMAIN group} \ {NullV}

\* lo and hi are the minimum and the maximum of v over the group, as C15
\* describes them
MinMaxOf(group, lo, hi) ==
    /\ ValuesOf(group) = {} => (lo = NullV /\ hi = NullV)
    /\ (ValuesOf(group) # {} /\ \A w \in ValuesOf(group) : ParseFloat(w).t = "num")
           => /\ \E w \in ValuesOf(group) : lo = ParseFloat(w)
              /\ \E w \in ValuesOf(group) : hi = ParseFloat(w)
              /\ \A w \in ValuesOf(group) :
                     lo.n <= ParseFloat(w).n /\ ParseFloat(w).n <= hi.n
    /\ (ValuesOf(group) # {}
            /\ \A w \in ValuesOf(group) : w.t = "str" /\ ParseFloat(w).t # "num")
           => /\ lo \in ValuesOf(group)
              /\ hi \in ValuesOf(group)
              /\ \A w \in ValuesOf(group) :
                     LocaleCompare(lo.s, w.s) <= 0 /\ LocaleCompare(w.s, hi.s) <= 0
    /\ \A m \in {lo, hi} :
           m = NullV \/ \E w \in ValuesOf(group) : m \in {w, ParseFloat(w)}

\* C15: MIN(v) and MAX(v) over a group (the rows of one GROUP BY group, or
\* all the rows when there is no GROUP BY) look at the non-null values only
\* and are null when there are none; they are the numeric minimum and
\* maximum when every value parses as a number, and the lexicographically
\* smallest and largest value when the values are text that is not a
\* number; so each is null or (the numeric form of) a value of the group.
C15_MinMaxOverNonNullValues ==
    (pc = "done" /\ data.s # <<>> /\ IsNull(ast.where)
        /\ \E c \in DOMAIN ast.columns : ast.columns[c].type = KW.MIN)
        => /\ raised = ""
           /\ IsNull(ast.groupBy)
                  => /\ Len(result) = 1
                     /\ MinMaxOf(data.s, result[1][Col.lo], result[1][Col.hi])
           /\ ~IsNull(ast.groupBy)
                  => \A i \in FirstOfCombination :
                         \E r \in {Cardinality({j \in FirstOfCombination : j <= i})} :
                             MinMaxOf(SameCombination(i), result[r][Col.lo],
                                      result[r][Col.hi])

\* a is before b in the comparison of C16: null is before everything that
\* is not null; two values that both parse as numbers compare as numbers,
\* any other two as strings
Before(a, b) ==
    IF IsNull(a) THEN ~IsNull(b)
    ELSE IF IsNull(b) THEN FALSE
    ELSE LET na == ParseFloat(a)
             nb == ParseFloat(b)
         IN  IF na.t = "num" /\ nb.t = "num" THEN na.n < nb.n
             ELSE LocaleCompare(ToStringV(a), ToStringV(b)) < 0

\* the number of times a row occurs in a sequence
Occurrences(rows, row) == Cardinality({i \in DOMAIN rows : rows[i] = row})

\* executeQuery has run SELECT * ORDER BY <orderBy>, without join, WHERE,
\* grouping or limit
OrderRan ==
    /\ pc = "done"
    /\ ~IsNull(ast.orderBy)
    /\ IsNull(ast.join) /\ IsNull(ast.where) /\ IsNull(ast.groupBy)
    /\ IsNull(ast.limit)
    /\ ast.columns = StarQuery(NullV, NullV).columns

\* C16: ORDER BY and the operators >, >=, <, <= use one comparison: null is
\* less than every value that is not null and equal to null, two values
\* that both parse as numbers compare as numbers, any other two as strings.
\* ORDER BY v ASC returns the rows of data with no row before a row that
\* the comparison puts before it (so the rows without v come first, and
\* "10", "2", "abc" come out as "2", "10", "abc"); WHERE v <op> literal
\* keeps exactly the rows that the comparison puts on that side of the
\* literal.
C16_OneComparisonForOrderAndRelations ==
    /\ (OrderRan /\ ast.orderBy.s = <<[column |-> Col.v, direction |-> KW.ASC]>>)
           => /\ raised = ""
              /\ Len(result) = Len(data.s)
              /\ \A i \in DOMAIN data.s :
                     Occurrences(result, data.s[i]) = Occurrences(data.s, data.s[i])
              /\ \A i, j \in DOMAIN result :
                     i < j => ~Before(getValue(result[j], Col.v),
                                      getValue(result[i], Col.v))
    /\ \A op \in {<<">">>, <<">", "=">>, <<"<">>, <<"<", "=">>} :
           WhereRan(op)
               => /\ raised = ""
                  /\ result = SelectSeq(data.s, LAMBDA row :
                        IF op = <<">">>
                        THEN Before(ast.where.value, getValue(row, ast.where.column))
                        ELSE IF op = <<">", "=">>
                        THEN ~Before(getValue(row, ast.where.column), ast.where.value)
                        ELSE IF op = <<"<">>
                        THEN Before(getValue(row, ast.where.column), ast.where.value)
                        ELSE ~Before(ast.where.value, getValue(row, ast.where.column)))

\* C16, reached: ORDER BY v ASC over {v:"10"}, {v:"2"}, {v:"abc"} has
\* returned {v:"2"}, {v:"10"}, {v:"abc"}.
C16_Witness ==
    /\ OrderRan
    /\ data.s = <<TableRows.sort[1], TableRows.sort[2], TableRows.sort[3]>>
    /\ result = <<TableRows.sort[2], TableRows.sort[1], TableRows.sort[3]>>

\* rows a and b are equal on the sort key of an OrderSpec entry
SameKey(a, b, order) ==
    /\ ~Before(getValue(a, order.column), getValue(b, order.column))
    /\ ~Before(getValue(b, order.column), getValue(a, order.column))

\* row a goes before row b: they are equal on the keys before some entry,
\* and on that entry a is before b (after b, for DESC)
GoesBefore(a, b, orderBy) ==
    \E k \in DOMAIN orderBy :
        /\ \A m \in 1..(k - 1) : SameKey(a, b, orderBy[m])
        /\ IF orderBy[k].direction = KW.DESC
           THEN Before(getValue(b, orderBy[k].column), getValue(a, orderBy[k].column))
           ELSE Before(getValue(a, orderBy[k].column), getValue(b, orderBy[k].column))

\* the rows that are equal to row a on every key
TiedWith(rows, a, orderBy) ==
    SelectSeq(rows, LAMBDA b : \A k \in DOMAIN orderBy : SameKey(a, b, orderBy[k]))

\* C17: the order stage is a stable sort on several keys: its output is a
\* permutation of its input; no row comes after a row that it goes before
\* (by the first entry, then by the next one among the rows equal on the
\* first, and so on, DESC reversing the comparison of its own key only);
\* the rows that are equal on every key keep their order, under DESC too.
C17_StableMultiKeySort ==
    OrderRan
        => /\ raised = ""
           /\ Len(result) = Len(data.s)
           /\ \A i \in DOMAIN data.s :
                  Occurrences(result, data.s[i]) = Occurrences(data.s, data.s[i])
           /\ \A i, j \in DOMAIN result :
                  i < j => ~GoesBefore(result[j], result[i], ast.orderBy.s)
           /\ \A i \in DOMAIN data.s :
                  TiedWith(result, data.s[i], ast.orderBy.s)
                      = TiedWith(data.s, data.s[i], ast.orderBy.s)

\* C17, reached: ORDER BY env DESC, v ASC over {v:"2"}, {env:"dev"}, {v:2}
\* has put the row with env first and has left the two rows that are equal
\* on both keys in their order.
C17_Witness ==
    /\ OrderRan
    /\ Len(ast.orderBy.s) = 2
    /\ ast.orderBy.s[1].direction = KW.DESC
    /\ data.s = <<TableRows.sort[2], TableRows.sort[5], TableRows.sort[4]>>
    /\ result = <<TableRows.sort[5], TableRows.sort[2], TableRows.sort[4]>>


\* whether text matches the LIKE pattern: "%" stands for any run of
\* characters, "_" for one character, any other character for itself
RECURSIVE LikeMatches(_, _)
LikeMatches(pattern, text) ==
    IF pattern = <<>> THEN text = <<>>
    ELSE IF Head(pattern) = "%"
    THEN \/ LikeMatches(Tail(pattern), text)
         \/ text # <<>> /\ LikeMatches(pattern, Tail(text))
    ELSE /\ text # <<>>
         /\ Head(pattern) \in {"_", Head(text)}
         /\ LikeMatches(Tail(pattern), Tail(text))

\* C18: a WHERE that is one LIKE comparison over rows whose cell is a
\* string keeps exactly the rows whose whole cell matches the pattern
\* without regard to letter case, "%" standing for any run of characters
\* and "_" for one character; so "%abc%" keeps every cell that contains
\* abc in any case, and "a_c" keeps "abc" but neither "ac" nor "abbc".
C18_LikeIsWildcardMatch ==
    (WhereRan(KW.LIKE) /\ \A i \in DOMAIN data.s : data.s[i][Col.v].t = "str")
        => /\ raised = ""
           /\ result = SelectSeq(data.s, LAMBDA row :
                           LikeMatches(ToLowerCase(ast.where.value.s),
                                       ToLowerCase(row[Col.v].s)))

\* an INNER join ran on the two dotted columns a.k and b.k
DottedJoinRan ==
    /\ JoinRan(KW.INNER)
    /\ ast.join.on = [left |-> Col.ak, right |-> Col.bk]

\* the pairs of a primary and a secondary row whose join values are
\* loosely equal, the value of a dotted column in a row being the one under
\* the bare name and, when there is none, the one under the dotted name
DottedPairs ==
    {p \in (DOMAIN data.s) \X (DOMAIN rightData.s) :
        LooseEq(getValue(data.s[p[1]], ast.join.on.left),
                getValue(rightData.s[p[2]], ast.join.on.right))}

\* C19: the join stage resolves a dotted join column against a row like
\* WHERE and ORDER BY do, the bare name first and then the dotted name; so
\* an INNER join ON a.k = b.k yields one row for every pair of rows whose
\* values under these names are loosely equal and no other row, also when
\* the rows carry the key "a.k" and no key "k".
C19_JoinResolvesDottedColumn ==
    DottedJoinRan
        => /\ Len(joined) = Cardinality(DottedPairs)
           /\ \A k \in DOMAIN joined :
                  \E p \in DottedPairs :
                      joined[k]
                          = [c \in DOMAIN data.s[p[1]] \cup DOMAIN rightData.s[p[2]] |->
                                IF c \in DOMAIN rightData.s[p[2]]
                                THEN rightData.s[p[2]][c]
                                ELSE data.s[p[1]][c]]

\* the condition types that evaluateCondition has a case for
KnownConditionTypes ==
    {KW.AND, KW.OR, KW.NOT, <<"=">>, <<"=", "=">>, <<"!", "=">>, <<"<", ">">>,
     <<">">>, <<">", "=">>, <<"<">>, <<"<", "=">>, KW.LIKE, KW["IN"]}

\* executeQuery ran SELECT * with the WHERE clause only
OnlyWhereRan ==
    /\ pc = "done"
    /\ ~IsNull(ast.where)
    /\ IsNull(ast.join) /\ IsNull(ast.groupBy) /\ IsNull(ast.orderBy)
    /\ IsNull(ast.limit)
    /\ ast.columns = StarQuery(NullV, NullV).columns

\* C20: a leaf condition of a type that evaluateCondition has no case for
\* is true for every row and raises nothing: a WHERE made of it alone keeps
\* every row, and a WHERE that is NOT of it keeps no row.
C20_UnknownConditionTypeIsTrue ==
    OnlyWhereRan
        => /\ ast.where.type \notin KnownConditionTypes
                  => raised = "" /\ result = data.s
           /\ (/\ ast.where.type = KW.NOT
               /\ ast.where.condition.type \notin KnownConditionTypes)
                  => raised = "" /\ result = <<>>

\* C20, reached: WHERE v ! "abc" has kept the three rows of a table, one of
\* them with v = "abc" and one with another v.
C20_Witness ==
    /\ OnlyWhereRan
    /\ ast.where.type = <<"!">>
    /\ data.s = <<TableRows.text[1], TableRows.text[3], TableRows.text[1]>>
    /\ result = data.s

C22_NoDataGivesNoRows ==
    (pc = "done" /\ (IsNull(data) \/ data.s = <<>>))
        => raised = "" /\ result = <<>>

\* C22, reached: SELECT COUNT(*) AS c over an empty data array has given
\* no row.
C22_Witness ==
    /\ pc = "done"
    /\ data = ListV(<<>>)
    /\ Len(ast.columns) = 1
    /\ ast.columns[1].t = "agg"
    /\ IsNull(ast.groupBy)
    /\ result = <<>>

\* the indices of the rows of data that open a group: no earlier row has
\* their group key
GroupOpeners ==
    {i \in DOMAIN data.s :
        \A j \in 1..(i - 1) :
            getGroupKey(data.s[j], ast.groupBy.s) # getGroupKey(data.s[i], ast.groupBy.s)}

\* the keys that the aggregate calls of the select list give a row: the
\* alias, or FUNCTION_column without one
AggregateKeys ==
    {IF ast.columns[c].alias # NullV THEN ast.columns[c].alias.s
     ELSE ast.columns[c].type \o <<"_">> \o ast.columns[c].column :
        c \in {d \in DOMAIN ast.columns : ast.columns[d].t = "agg"}}

\* C23: the keys of a grouped output row are the group-by columns and one
\* key for every aggregate call of the select list (its alias, or
\* FUNCTION_column) and no other: neither a plain select column that is not
\* grouped by nor the alias of a plain column; the value under a group-by
\* column is the one of the first row of the group.
C23_GroupedRowKeys ==
    GroupRan
        => /\ Len(result) = Cardinality(GroupOpeners)
           /\ \A i \in GroupOpeners :
                  \E r \in {Cardinality({j \in GroupOpeners : j <= i})} :
                      /\ DOMAIN result[r] = Range(ast.groupBy.s) \cup AggregateKeys
                      /\ \A c \in Range(ast.groupBy.s) :
                             result[r][c] = getValue(data.s[i], c)

\* C23, reached: SELECT x, env AS id, COUNT(*), SUM(v) AS s GROUP BY env
\* over rows of two groups has given two rows with the keys env, COUNT_*
\* and s.
C23_Witness ==
    /\ GroupRan
    /\ \E c \in DOMAIN ast.columns : ast.columns[c].t = "alias"
    /\ Len(result) = 2
    /\ \A r \in DOMAIN result :
           DOMAIN result[r] = {Col.env, <<"C", "O", "U", "N", "T", "_", "*">>, Col.s}
    /\ result[1][Col.env] # result[2][Col.env]

\* the tokens that tokenize gives for the input s read from position p
RECURSIVE TokensFrom(_, _)
TokensFrom(s, p) ==
    LET r == nextToken(s, p)
    IN  IF r.token.type = TOKEN_TYPES.EOF THEN <<r.token>>
        ELSE <<r.token>> \o TokensFrom(s, r.pos)

Parsed(name) == pc = "parsed" /\ input = TestQueries[name]

\* the comparison column = n of a WHERE clause
Equals(column, n) == CondCmp(<<"=">>, column, Int2Num(n))

\* no right operand of AND or OR is itself an AND or an OR, and NOT is
\* applied to no AND and no OR
RECURSIVE LeftNested(_)
LeftNested(condition) ==
    IF condition.type \in {KW.AND, KW.OR}
    THEN /\ condition.right.type \notin {KW.AND, KW.OR}
         /\ LeftNested(condition.left)
         /\ LeftNested(condition.right)
    ELSE IF condition.type = KW.NOT
    THEN /\ condition.condition.type \notin {KW.AND, KW.OR}
         /\ LeftNested(condition.condition)
    ELSE TRUE

\* C25: AND and OR have the same precedence and associate to the left, and
\* NOT takes the one term after it: a = 1 OR b = 2 AND c = 3 is
\* And(Or(a = 1, b = 2), c = 3), NOT a = 1 AND b = 2 is And(Not(a = 1),
\* b = 2), and in a WHERE without parentheses no right operand and no
\* operand of NOT is an AND or an OR; a = 1 OR (b = 2 AND c = 3) is
\* Or(a = 1, And(b = 2, c = 3)).
C25_AndOrLeftAssociative ==
    /\ Parsed("orAnd")
           => ast.where = CondBin(KW.AND,
                                  CondBin(KW.OR, Equals(<<"a">>, 1), Equals(<<"b">>, 2)),
                                  Equals(<<"c">>, 3))
    /\ Parsed("notAnd")
           => ast.where = CondBin(KW.AND, CondNot(Equals(<<"a">>, 1)),
                                  Equals(<<"b">>, 2))
    /\ Parsed("orParenAnd")
           => ast.where = CondBin(KW.OR, Equals(<<"a">>, 1),
                                  CondBin(KW.AND, Equals(<<"b">>, 2),
                                          Equals(<<"c">>, 3)))
    /\ (pc = "parsed" /\ ~IsNull(ast.where) /\ "(" \notin Range(input))
           => LeftNested(ast.where)

\* C25, reached: a = 1 OR b = 2 AND c = 3 has been parsed, and its WHERE
\* is an AND whose left operand is an OR.
C25_Witness ==
    /\ Parsed("orAnd")
    /\ ast.where.type = KW.AND
    /\ ast.where.left.type = KW.OR

\* the token at position p of tokens is a keyword, one of words
KeywordAt(p, words) ==
    /\ currentToken(tokens, p).type = TOKEN_TYPES.KEYWORD
    /\ currentToken(tokens, p).value.s \in words

\* C26: a clause function whose starting keyword is not the token at the
\* cursor returns absent and leaves the cursor where it is, for each of
\* FROM, WHERE, ORDER BY, GROUP BY, JOIN and LIMIT; the six run in this
\* order, so FROM t JOIN u ON a = b WHERE x = 1 has a join and no where,
\* and GROUP BY g ORDER BY o LIMIT 5 has a groupBy and neither orderBy nor
\* limit.
C26_ClausesInFixedOrder ==
    /\ pc \in {"lexed", "parsed", "failed", "done"}
           => \A p \in 0..Len(tokens) :
                  /\ ~KeywordAt(p, {KW.FROM}) => parseFrom(tokens, p) = Ok(NullV, p)
                  /\ ~KeywordAt(p, {KW.WHERE}) => parseWhere(tokens, p) = Ok(NullV, p)
                  /\ ~KeywordAt(p, {KW.ORDER}) => parseOrderBy(tokens, p) = Ok(NullV, p)
                  /\ ~KeywordAt(p, {KW.GROUP}) => parseGroupBy(tokens, p) = Ok(NullV, p)
                  /\ ~KeywordAt(p, {KW.JOIN, KW.INNER, KW.LEFT, KW.RIGHT})
                         => parseJoin(tokens, p) = Ok(NullV, p)
                  /\ ~KeywordAt(p, {KW.LIMIT}) => parseLimit(tokens, p) = Ok(NullV, p)
    /\ Parsed("joinWhere") => ~IsNull(ast.join) /\ IsNull(ast.where)
    /\ Parsed("groupOrderLimit")
           => /\ ast.groupBy = ListV(<<<<"g">>>>)
              /\ IsNull(ast.orderBy)
              /\ IsNull(ast.limit)

\* the iterations of the AND/OR loop, of the NOT recursion and of the IN
\* loop that built a condition
RECURSIVE Iterations(_)
Iterations(cond) ==
    IF cond.type \in {KW.AND, KW.OR}
        THEN 1 + Iterations(cond.left) + Iterations(cond.right)
    ELSE IF cond.type = KW.NOT THEN 1 + Iterations(cond.condition)
    ELSE IF cond.value.t = "array" THEN Len(cond.value.items)
    ELSE 0

\* r is a throw, or a return at a position from lo to the token count
StopsFrom(r, lo) == r.err = "" => lo <= r.pos /\ r.pos <= Len(tokens)

\* C27: parse ends on every token array that tokenize returned: from any
\* position each parse function either raises or returns at a position
\* that is not before the one it started from and not after the last
\* token, the functions that read something return after it, every
\* iteration of the select-list, ORDER BY, GROUP BY, AND/OR, NOT and IN
\* loops takes at least one token, the token past the last one is EOF, and
\* a parse that returned made fewer iterations than it took tokens.
C27_ParseTerminates ==
    /\ pc = "lexed"
       => /\ currentToken(tokens, Len(tokens)) = EOFToken
          /\ StopsFrom(parse(tokens), 0)
          /\ \A p \in 0..Len(tokens) :
              /\ StopsFrom(parseFrom(tokens, p), p)
              /\ StopsFrom(parseWhere(tokens, p), p)
              /\ StopsFrom(parseOrderBy(tokens, p), p)
              /\ StopsFrom(parseGroupBy(tokens, p), p)
              /\ StopsFrom(parseJoin(tokens, p), p)
              /\ StopsFrom(parseLimit(tokens, p), p)
              /\ StopsFrom(parseSelect(tokens, p), p + 2)
              /\ StopsFrom(parseColumn(tokens, p), p + 1)
              /\ StopsFrom(parseColumnIdentifier(tokens, p), p + 1)
              /\ StopsFrom(parseValue(tokens, p), p + 1)
              /\ \A type \in {TOKEN_TYPES.KEYWORD, TOKEN_TYPES.IDENTIFIER, TOKEN_TYPES.NUMBER,
                              TOKEN_TYPES.OPERATOR, TOKEN_TYPES.PUNCTUATION} :
                     StopsFrom(expect(tokens, p, type, NullV), p + 1)
              /\ LET r == SelectLoop(tokens, p, <<>>)
                 IN  StopsFrom(r, p) /\ (r.err = "" => r.pos >= p + Len(r.val))
              /\ LET r == OrderLoop(tokens, p, <<>>)
                 IN  StopsFrom(r, p) /\ (r.err = "" => r.pos >= p + Len(r.val.s))
              /\ LET r == GroupLoop(tokens, p, <<>>)
                 IN  StopsFrom(r, p) /\ (r.err = "" => r.pos >= p + Len(r.val.s))
              /\ LET r == InLoop(tokens, p, <<>>)
                 IN  StopsFrom(r, p) /\ (r.err = "" => r.pos >= p + Len(r.val.items) + 1)
              /\ LET r == parseConditionTerm(tokens, p)
                 IN  StopsFrom(r, p) /\ (r.err = "" => r.pos >= p + 3 + Iterations(r.val))
              /\ LET r == parseCondition(tokens, p)
                 IN  StopsFrom(r, p) /\ (r.err = "" => r.pos >= p + 3 + Iterations(r.val))
    /\ pc = "parsed"
       => /\ parserPosition < Len(tokens)
          /\ Len(ast.columns)
               + (IF IsNull(ast.where) THEN 0 ELSE Iterations(ast.where))
               + (IF IsNull(ast.orderBy) THEN 0 ELSE Len(ast.orderBy.s))
               + (IF IsNull(ast.groupBy) THEN 0 ELSE Len(ast.groupBy.s))
                 < parserPosition

\* a parse that went through the select-list, NOT, AND/OR, ORDER BY and
\* GROUP BY loops has returned, and the IN loop has read the list that
\* follows
C27_Witness ==
    /\ Parsed("allLoops")
    /\ Len(ast.columns) = 2
    /\ Iterations(ast.where) = 2
    /\ Len(ast.orderBy.s) = 2
    /\ Len(ast.groupBy.s) = 2
    /\ parserPosition = Len(tokens) - 6
    /\ InLoop(tokens, parserPosition + 1, <<>>)
           = Ok(ArrayV(<<Int2Num(1), Int2Num(2)>>), Len(tokens) - 1)

\* rows i and j of data are put in one group by groupBy
InOneGroup(i, j) ==
    getGroupKey(data.s[i], ast.groupBy.s) = getGroupKey(data.s[j], ast.groupBy.s)

\* C28: with GROUP BY, two rows are in one group exactly when on every
\* group-by column their values are both null or missing, or are equal, so
\* that there are as many result rows as different combinations: a row
\* without a value, a row with 0 and a row with '' are in three groups.
C28_GroupsAreEqualCombinations ==
    GroupRan
        => /\ \A i, j \in DOMAIN data.s :
                  InOneGroup(i, j) <=> GroupValues(data.s[i]) = GroupValues(data.s[j])
           /\ Len(result) = Cardinality({GroupValues(data.s[i]) : i \in DOMAIN data.s})

\* executeQuery has run a query with ORDER BY, without join, WHERE or limit
ShapedOrderRan ==
    /\ pc = "done"
    /\ raised = ""
    /\ ~IsNull(data)
    /\ data.s # <<>>
    /\ ~IsNull(ast.orderBy)
    /\ IsNull(ast.join) /\ IsNull(ast.where) /\ IsNull(ast.limit)

\* the rows that leave the GROUP BY or SELECT stage of such a query
Shaped ==
    IF ~IsNull(ast.groupBy) /\ Len(ast.groupBy.s) > 0
    THEN groupBy(data.s, ast.groupBy.s, ast.columns)
    ELSE selectColumns(ArrayRef("data", data.s), ast.columns).s

\* no ORDER BY column is a key of a row that leaves that stage
NoOrderKey == \A o \in Range(ast.orderBy.s) : \A r \in Range(Shaped) : o.column \notin DOMAIN r

\* no ORDER BY column, and no part after the dot of one, is such a key
NoOrderKeyResolved ==
    /\ NoOrderKey
    /\ \A o \in Range(ast.orderBy.s) :
           HasDot(o.column)
               => \A r \in Range(Shaped) : SecondSegment(o.column) \notin DOMAIN r

\* C29 as stated: the rows that leave the GROUP BY or SELECT stage are the
\* ones sorted, and when no ORDER BY column is a key of these rows the
\* result is these rows in the order they had.
C29_OrderOfOutputRows ==
    ShapedOrderRan
        => /\ result = StableSort(Shaped, ast.orderBy.s)
           /\ NoOrderKey => result = Shaped

\* C29, amended: the rows that leave the GROUP BY or SELECT stage are the
\* ones sorted, and when no ORDER BY column is a key of these rows, nor the
\* part after the dot of a column table.column, the result is these rows
\* in the order they had.
C29_OrderOfResolvedOutputRows ==
    ShapedOrderRan
        => /\ result = StableSort(Shaped, ast.orderBy.s)
           /\ NoOrderKeyResolved => result = Shaped

\* SELECT env ORDER BY v DESC over {v:"2"}, {v:"10"}, {env:"dev"}: the rows
\* come out in the order of the data, which is not the order of v
C29_Witness ==
    /\ ShapedOrderRan
    /\ NoOrderKeyResolved
    /\ ast.columns = <<Column("string", <<>>, Col.env, NullV)>>
    /\ ast.orderBy = ListV(<<[column |-> Col.v, direction |-> KW.DESC]>>)
    /\ data = ListV(<<TableRows.sort[2], TableRows.sort[1], TableRows.sort[5]>>)
    /\ result = <<(Col.env :> NullV), (Col.env :> NullV),
                  (Col.env :> Str(<<"d", "e", "v">>))>>

\* an INNER or LEFT join ran over primary and secondary rows
InnerOrLeftJoinRan == JoinRan(KW.INNER) \/ JoinRan(KW.LEFT)

\* the join column of primary row i is null or missing
PrimaryLacks(i) == IsNull(Field(data.s[i], JoinColumn(ast.join.on.left)))

\* the indices of the secondary rows whose join column is null or missing,
\* in the order of the rows
RECURSIVE LackingFrom(_)
LackingFrom(j) ==
    IF j > Len(rightData.s) THEN <<>>
    ELSE (IF IsNull(Field(rightData.s[j], JoinColumn(ast.join.on.right)))
          THEN <<j>> ELSE <<>>) \o LackingFrom(j + 1)

\* the number of rows the join yields for primary row i: one for every
\* secondary row lacking the join column when row i lacks it, else one for
\* every secondary row with a loosely equal value; a LEFT join yields one
\* row where that gives none
Yield(i) ==
    LET n == IF PrimaryLacks(i) THEN Len(LackingFrom(1))
             ELSE Cardinality({j \in DOMAIN rightData.s : JoinMatch(i, j)})
    IN  IF n = 0 /\ ast.join.type = KW.LEFT THEN 1 ELSE n

\* the number of rows the join yields for the primary rows before row i
RECURSIVE YieldBefore(_)
YieldBefore(i) == IF i = 1 THEN 0 ELSE YieldBefore(i - 1) + Yield(i - 1)

\* C30: in an INNER or LEFT join a primary row whose join column is null or
\* missing yields one merged row for every secondary row whose join column
\* is null or missing, in their order, and a row for no other secondary
\* row; when no row of either side has the join column the join yields the
\* merged rows of the whole cross product.
C30_NullJoinsNull ==
    InnerOrLeftJoinRan
        => /\ Len(joined) = YieldBefore(Len(data.s) + 1)
           /\ \A i \in DOMAIN data.s :
                  PrimaryLacks(i)
                      => \A n \in 1..Len(LackingFrom(1)) :
                             joined[YieldBefore(i) + n]
                                 = Merge(data.s[i], rightData.s[LackingFrom(1)[n]])
           /\ (/\ \A i \in DOMAIN data.s : PrimaryLacks(i)
               /\ Len(LackingFrom(1)) = Len(rightData.s)
               /\ rightData.s # <<>>)
                  => /\ Len(joined) = Len(data.s) * Len(rightData.s)
                     /\ \A i \in DOMAIN data.s, j \in DOMAIN rightData.s :
                            joined[(i - 1) * Len(rightData.s) + j]
                                = Merge(data.s[i], rightData.s[j])

\* INNER JOIN t ON k = k over {"a.k":1}, {k:null}, {k:1} and the secondary
\* rows {"b.k":1}, {"b.k":2}: the two rows without a value of k are each
\* merged with both secondary rows, the third row with none
C30_Witness ==
    /\ JoinRan(KW.INNER)
    /\ ast.join.on = [left |-> Col.k, right |-> Col.k]
    /\ data = ListV(TableRows.join)
    /\ rightData = ListV(<<TableRows.right[1], TableRows.right[2]>>)
    /\ PrimaryLacks(1) /\ PrimaryLacks(2) /\ ~PrimaryLacks(3)
    /\ Len(joined) = 4
    /\ joined[1] = (Col.ak :> Int2Num(1)) @@ (Col.bk :> Int2Num(1))
    /\ joined[3] = (Col.k :> NullV) @@ (Col.bk :> Int2Num(1))
    /\ joined[4] = (Col.k :> NullV) @@ (Col.bk :> Int2Num(2))
=============================================================================
